---------------------------- MODULE Spec2Model ----------------------------
(***************************************************************************)
(* Model of the Gridder analysis engine (python/gridder_analysis).         *)
(*                                                                         *)
(* Representation.  Beat positions are rationals in the program (seconds   *)
(* as floats); here they are integers counted in ticks of 10 ms, so        *)
(* 1 s = 100 ticks and the default drift tolerance of 20 ms is 2 ticks.    *)
(* Every comparison of the source is carried out exactly, by               *)
(* cross-multiplying the divisions away.  A bpm is kept in hundredths      *)
(* (12000 is 120.00 BPM), which is the precision round(bpm, 2) leaves.     *)
(* Beat indices are 0-based as in the source; At(bt, i) reads index i.     *)
(***************************************************************************)
EXTENDS Integers, Sequences, FiniteSets, TLC

VARIABLES
    pc,            \* position in the operation being run
    beat_times,    \* the beat sequence of the operation, as numerators
    den,           \* common denominator of beat_times: a beat is beat_times[i]/den ticks
    prev_beats,    \* beat_times as it was before the latest step
    max_drift_ms,  \* segment_tempo's tolerance, in ticks (2 = 20 ms)
    segments,      \* segment_tempo's working / returned segment list
    existing_markers, \* a decoded marker list (reconstruct_serato_beats' markers)
    max_beats,     \* reconstruct_serato_beats' max_beats
    duration,      \* reconstruct_serato_beats' duration, in ticks (0: not given)
    serato_beats,  \* the list reconstruct_serato_beats returns, as rationals
    file,          \* the audio file: its path, readability and bytes
    grid,          \* what read_serato_beatgrid returned
    encoder_delay, \* what get_mp3_encoder_delay returned
    marker_blob,   \* a serialized marker list, as bytes
    y,             \* the audio signal main() loads
    first_beat_override, \* --first-beat, in ticks, or NoOverride
    raw_beats,     \* the beat times main() starts from (den = 1)
    pre_snap_beats, \* the copy of the beats taken before step 2e, rationals
    prepend_count, \* the number of beats step 2c prepended
    calibrated_offset, \* step 2f's calibrated_offset
    total_offset,  \* the offset step 2f added, a rational in ticks
    offsets,       \* step 2f's list of matched deltas, rationals in ticks
    scan_index     \* step 2d's loop index i, 0-based

vars == <<pc, beat_times, den, prev_beats, max_drift_ms, segments,
          existing_markers, max_beats, duration, serato_beats,
          file, grid, encoder_delay, marker_blob, y, first_beat_override, raw_beats,
          pre_snap_beats, prepend_count, calibrated_offset, total_offset, offsets, scan_index>>

segVars == <<max_drift_ms, segments>>

beatVars == <<beat_times, den, prev_beats>>

reconVars == <<existing_markers, max_beats, duration, serato_beats>>

fileVars == <<file, grid, encoder_delay, marker_blob>>

pipeVars == <<y, first_beat_override, raw_beats, pre_snap_beats, prepend_count,
              calibrated_offset, total_offset, offsets, scan_index>>

----------------------------------------------------------------------------
(* Bounds of the model *)

\* longest interval sequence enumerated exhaustively
MaxLen == 6
\* largest number of repetitions of a short interval pattern
MaxRepeat == 17
\* longest interval pattern that is repeated
MaxPeriod == 2

----------------------------------------------------------------------------
(* Arithmetic helpers *)

Abs(x) == IF x < 0 THEN -x ELSE x

Min(a, b) == IF a < b THEN a ELSE b

Max(a, b) == IF a > b THEN a ELSE b

\* round(a / b) for a >= 0, b > 0, ties to even as Python's round does
RoundDiv(a, b) ==
    LET q == a \div b
        r == a % b
    IN  IF 2 * r < b THEN q
        ELSE IF 2 * r > b THEN q + 1
        ELSE IF q % 2 = 0 THEN q ELSE q + 1

\* bt[i] with a 0-based index
At(bt, i) == bt[i + 1]

RECURSIVE SumBetween(_, _, _, _)
\* sum of f[i] over the indices of S from lo to hi, by halves
SumBetween(f, S, lo, hi) ==
    IF lo > hi THEN 0
    ELSE IF lo = hi THEN (IF lo \in S THEN f[lo] ELSE 0)
    ELSE SumBetween(f, S, lo, (lo + hi) \div 2)
         + SumBetween(f, S, (lo + hi) \div 2 + 1, hi)

\* sum of f[i] over the index set S of a function or sequence
SumOver(f, S) ==
    IF S = {} THEN 0
    ELSE SumBetween(f, S, CHOOSE x \in S : \A z \in S : x <= z,
                    CHOOSE x \in S : \A z \in S : x >= z)

----------------------------------------------------------------------------
(* tempo_segmenter.py *)

\* 120.0 BPM, the placeholder tempo
DefaultBpm == 12000

\* round(60 * beat_count / span, 2) in hundredths of a BPM, for a span in
\* units of beat_times: the whole BPMs, then the hundredths
RoundedBpm(beat_count, span, d) ==
    LET a == 60 * 100 * d * beat_count
    IN  100 * (a \div span) + RoundDiv(100 * (a % span), span)

\* _implicit_bpm followed by round(float(bpm), 2): 60 * beat_count / span,
\* in hundredths of a BPM; a second is 100 * den units of beat_times
_implicit_bpm(bt, start_idx, end_idx) ==
    IF end_idx <= start_idx THEN DefaultBpm
    ELSE LET span == At(bt, end_idx) - At(bt, start_idx)
         IN  IF span <= 0 THEN DefaultBpm
             ELSE RoundedBpm(end_idx - start_idx, span, den)

\* n * |actual - expected| for interior beat k of the grid pinned at s and e,
\* where n = e - s: the drift of beat s+k scaled by n (no division)
ScaledDrift(bt, s, e, k) ==
    Abs((e - s) * (At(bt, s + k) - At(bt, s)) - k * (At(bt, e) - At(bt, s)))

\* a verification that looks at the last interior beat only
DriftExceedsLastOnly(bt, start, candidate_end, tol) ==
    ScaledDrift(bt, start, candidate_end, candidate_end - start - 1)
        > tol * (candidate_end - start)

\* max_drift > max_drift_sec for the candidate span [start, candidate_end]
DriftExceeds(bt, start, candidate_end, tol) ==
    \E k \in 1 .. (candidate_end - start - 1) :
        ScaledDrift(bt, start, candidate_end, k) > tol * (candidate_end - start)

\* the for loop of _find_segment_end from candidate_end on; returns best_end:
\* the candidate before the first one whose drift exceeds the tolerance, the
\* last beat when no candidate breaks the loop
FindFrom(bt, start, tol, candidate_end) ==
    LET broke == {c \in candidate_end .. (Len(bt) - 1) :
                    DriftExceeds(bt, start, c, tol)}
    IN  IF candidate_end > Len(bt) - 1 THEN candidate_end - 1
        ELSE IF broke = {} THEN Len(bt) - 1
        ELSE (CHOOSE c \in broke : \A z \in broke : c <= z) - 1

_find_segment_end(bt, start, tol) == FindFrom(bt, start, tol, start + 2)

\* Rationals: [n |-> numerator, d |-> denominator > 0], in lowest terms
RECURSIVE GCD(_, _)
GCD(a, b) == IF b = 0 THEN a ELSE GCD(b, a % b)

Rat(n, d) ==
    LET g == GCD(Abs(n), d)
    IN  [n |-> n \div g, d |-> d \div g]

\* the beat at p / den ticks rounded to whole milliseconds
RoundMillis(p) ==
    Rat((p \div den) * 10 + RoundDiv((p % den) * 10, den), 10)

\* round(float(beat_times[i]), 6) of the beat at p / den ticks: the whole
\* microseconds nearest to it, as a rational number of ticks (a tick is
\* 10000 microseconds)
Round6(p) ==
    Rat((p \div den) * 10000 + RoundDiv((p % den) * 10000, den), 10000)

\* float(beat_times[i]) of the beat at p / den ticks
Unrounded(p) == Rat(p, den)

Segment(s, e, p, b, c) ==
    [start_beat_index |-> s, end_beat_index |-> e, start_position |-> p,
     bpm |-> b, beat_count |-> c]

RECURSIVE BuildLoop(_, _, _, _)
\* the while loop of _build_segments and the standalone-last-beat clause
BuildLoop(bt, tol, seg_start, segs) ==
    IF seg_start < Len(bt) - 1
    THEN LET seg_end == _find_segment_end(bt, seg_start, tol)
         IN  BuildLoop(bt, tol, seg_end,
                 Append(segs, Segment(seg_start, seg_end,
                                      Round6(At(bt, seg_start)),
                                      _implicit_bpm(bt, seg_start, seg_end),
                                      seg_end - seg_start)))
    ELSE IF seg_start = Len(bt) - 1
            /\ (segs = <<>> \/ segs[Len(segs)].end_beat_index < Len(bt) - 1)
         THEN Append(segs, Segment(seg_start, seg_start,
                         Round6(At(bt, seg_start)),
                         IF segs = <<>> THEN DefaultBpm ELSE segs[Len(segs)].bpm,
                         1))
         ELSE segs

_build_segments(bt, tol) == BuildLoop(bt, tol, 0, <<>>)

\* the largest element of a non-empty finite set of integers
MaxOf(S) == CHOOSE m \in S : \A x \in S : x <= m

\* _serato_max_drift_good_only, scaled by n = end_idx - start_idx: n times the
\* largest drift of the interior beats outside [outlier_start, outlier_end]
_serato_max_drift_good_only(bt, start_idx, end_idx, outlier_start, outlier_end) ==
    LET n == end_idx - start_idx
    IN  IF n < 2 THEN 0
        ELSE MaxOf({0} \cup
                 {ScaledDrift(bt, start_idx, end_idx, k) :
                    k \in {x \in 1 .. (n - 1) :
                             ~(outlier_start <= start_idx + x
                               /\ start_idx + x <= outlier_end)}})

\* sum(s["beat_count"] for s in segments)
TotalBeats(segs) ==
    SumOver([i \in 1 .. Len(segs) |-> segs[i].beat_count], 1 .. Len(segs))

\* sum(s["bpm"] * s["beat_count"] for s in segments); weighted_bpm is this
\* divided by TotalBeats
WeightedSum(segs) ==
    SumOver([i \in 1 .. Len(segs) |-> segs[i].bpm * segs[i].beat_count],
            1 .. Len(segs))

\* abs(seg.bpm - weighted_bpm) / weighted_bpm * 100 > pct_num / pct_den
DeviatesMoreThan(seg, segs, pct_num, pct_den) ==
    Abs(seg.bpm * TotalBeats(segs) - WeightedSum(segs)) * 100 * pct_den
        > pct_num * WeightedSum(segs)

\* min_beats of _bridge_outliers
MinBeats == 8

\* is_outlier[i] of _bridge_outliers (bpm_outlier_pct = 5.0)
IsOutlier(seg, segs) ==
    seg.beat_count < MinBeats /\ DeviatesMoreThan(seg, segs, 5, 1)

\* the index after the outlier run that starts at i (1-based; Len+1 at the end)
RunEnd(segs, i) ==
    IF \E j \in i .. Len(segs) : ~IsOutlier(segs[j], segs)
    THEN CHOOSE j \in i .. Len(segs) :
            /\ ~IsOutlier(segs[j], segs)
            /\ \A x \in i .. (j - 1) : IsOutlier(segs[x], segs)
    ELSE Len(segs) + 1

\* a bridging test that allows the tolerance once, not twice
CanBridgeOnce(segs, bt, tol, i, j, result) ==
    /\ result # <<>>
    /\ j <= Len(segs)
    /\ LET bridge_start == result[Len(result)].start_beat_index
           bridge_end == segs[j].start_beat_index
           bridge_count == bridge_end - bridge_start
       IN  /\ bridge_count >= 2
           /\ _serato_max_drift_good_only(bt, bridge_start, bridge_end,
                  segs[i].start_beat_index, segs[j - 1].end_beat_index)
                <= tol * bridge_count

\* whether the outlier run segs[i .. j-1] is bridged from result[-1] to segs[j]
CanBridge(segs, bt, tol, i, j, result) ==
    /\ result # <<>>
    /\ j <= Len(segs)
    /\ LET bridge_start == result[Len(result)].start_beat_index
           bridge_end == segs[j].start_beat_index
           bridge_count == bridge_end - bridge_start
       IN  /\ bridge_count >= 2
           /\ _serato_max_drift_good_only(bt, bridge_start, bridge_end,
                  segs[i].start_beat_index, segs[j - 1].end_beat_index)
                <= 2 * tol * bridge_count

\* a bridge that forgets to move the end index of the extended segment
ExtendPrevGoodKeepsEnd(prev_good, bt, bridge_end) ==
    [prev_good EXCEPT
        !.beat_count = bridge_end - prev_good.start_beat_index,
        !.bpm = _implicit_bpm(bt, prev_good.start_beat_index, bridge_end)]

\* the accepted bridge: prev_good absorbs everything up to bridge_end
ExtendPrevGood(prev_good, bt, bridge_end) ==
    [prev_good EXCEPT
        !.end_beat_index = bridge_end,
        !.beat_count = bridge_end - prev_good.start_beat_index,
        !.bpm = _implicit_bpm(bt, prev_good.start_beat_index, bridge_end)]

RECURSIVE BridgeLoop(_, _, _, _, _)
\* the while loop of _bridge_outliers; i is 1-based
BridgeLoop(segs, bt, tol, i, result) ==
    IF i > Len(segs) THEN result
    ELSE IF IsOutlier(segs[i], segs)
    THEN LET j == RunEnd(segs, i)
         IN  IF CanBridge(segs, bt, tol, i, j, result)
             THEN LET prev_good == result[Len(result)]
                      bridge_end == segs[j].start_beat_index
                  IN  BridgeLoop(segs, bt, tol, j,
                          [result EXCEPT ![Len(result)] =
                              ExtendPrevGood(prev_good, bt, bridge_end)])
             ELSE IF j - i > 1
             THEN LET combined_start == segs[i].start_beat_index
                      combined_end == segs[j - 1].end_beat_index
                  IN  BridgeLoop(segs, bt, tol, j,
                          Append(result,
                              Segment(combined_start, combined_end,
                                      segs[i].start_position,
                                      _implicit_bpm(bt, combined_start,
                                                    combined_end),
                                      combined_end - combined_start)))
             ELSE BridgeLoop(segs, bt, tol, j, Append(result, segs[i]))
    ELSE BridgeLoop(segs, bt, tol, i + 1, Append(result, segs[i]))

_bridge_outliers(segs, bt, tol) ==
    IF Len(segs) <= 1 THEN segs
    ELSE IF TotalBeats(segs) = 0 THEN segs
    ELSE BridgeLoop(segs, bt, tol, 1, <<>>)

\* a "normal" segment of _consolidate_constant_tempo: deviation_pct <= 1.5
IsNormal(seg, segs) == ~DeviatesMoreThan(seg, segs, 3, 2)

\* normal_beats
NormalBeats(segs) ==
    SumOver([i \in 1 .. Len(segs) |->
                IF IsNormal(segs[i], segs) THEN segs[i].beat_count ELSE 0],
            1 .. Len(segs))

\* the beat indices strictly inside the segments that are not normal
OutlierBeatsInside(segs) ==
    UNION {(segs[i].start_beat_index + 1) .. (segs[i].end_beat_index - 1) :
             i \in {x \in 1 .. Len(segs) : ~IsNormal(segs[x], segs)}}

\* outlier_beats: the beat indices of the segments that are not normal
OutlierBeats(segs) ==
    UNION {segs[i].start_beat_index .. segs[i].end_beat_index :
             i \in {x \in 1 .. Len(segs) : ~IsNormal(segs[x], segs)}}

\* n * max_drift of the normal beats against one grid over [start_idx, end_idx]
ConsolidatedDrift(segs, bt, start_idx, end_idx) ==
    MaxOf({0} \cup
        {ScaledDrift(bt, start_idx, end_idx, k) :
           k \in {x \in 1 .. (end_idx - start_idx - 1) :
                    start_idx + x \notin OutlierBeats(segs)}})

_consolidate_constant_tempo(segs, bt) ==
    IF Len(segs) <= 1 THEN segs
    ELSE IF TotalBeats(segs) = 0 THEN segs
    ELSE IF NormalBeats(segs) * 100 < 85 * TotalBeats(segs) THEN segs
    ELSE LET first == segs[1]
             last == segs[Len(segs)]
             start_idx == first.start_beat_index
             end_idx == last.end_beat_index
             total_beat_count == end_idx - start_idx
             total_span == At(bt, end_idx) - At(bt, start_idx)
         IN  IF total_span <= 0 \/ total_beat_count <= 0 THEN segs
             \* max_drift_ms > 40.0: 40 ms is 4 ticks
             ELSE IF ConsolidatedDrift(segs, bt, start_idx, end_idx)
                        > 4 * den * total_beat_count
             THEN segs
             ELSE <<Segment(start_idx, end_idx, first.start_position,
                            RoundedBpm(total_beat_count, total_span, den),
                            total_beat_count)>>

----------------------------------------------------------------------------
(* __main__.py, step 2d: false beat removal *)

\* np.diff
Diffs(bt) == [i \in 1 .. (Len(bt) - 1) |-> bt[i + 1] - bt[i]]

\* the k-th smallest entry (k = 1 is the smallest) of a non-empty sequence
KthSmallest(xs, k) ==
    CHOOSE v \in {xs[i] : i \in DOMAIN xs} :
        /\ Cardinality({i \in DOMAIN xs : xs[i] < v}) < k
        /\ Cardinality({i \in DOMAIN xs : xs[i] <= v}) >= k

\* twice np.median(xs): the middle entry, or the mean of the two middle ones
Median2(xs) ==
    LET n == Len(xs)
    IN  IF n % 2 = 1 THEN 2 * KthSmallest(xs, (n + 1) \div 2)
        ELSE KthSmallest(xs, n \div 2) + KthSmallest(xs, n \div 2 + 1)

\* abs(interval - factor * median_interval) / median_interval <= 0.20, with
\* m2 twice the median interval
WithinTol20(interval, factor, m2) ==
    5 * Abs(2 * interval - factor * m2) <= m2

\* interval < median_interval * (1 - tolerance)
IsShort(interval, m2) == 5 * interval < 2 * m2

\* bt without the entry that follows 0-based index i
DeleteNext(bt, i) == SubSeq(bt, 1, i + 1) \o SubSeq(bt, i + 3, Len(bt))

\* bt without its entry at 0-based index i (np.delete)
Delete(bt, i) == SubSeq(bt, 1, i) \o SubSeq(bt, i + 2, Len(bt))

\* a removal test without the double-hit rule
IsFalseBeatNoDoubleHit(bt, i, m2) ==
    LET interval_before == At(bt, i) - At(bt, i - 1)
        interval_after == At(bt, i + 1) - At(bt, i)
        combined == At(bt, i + 1) - At(bt, i - 1)
    IN  /\ ~(WithinTol20(interval_before, 1, m2)
             /\ WithinTol20(interval_after, 1, m2))
        /\ WithinTol20(combined, 1, m2)

\* whether the scan removes the beat at 0-based index i
IsFalseBeat(bt, i, m2) ==
    LET interval_before == At(bt, i) - At(bt, i - 1)
        interval_after == At(bt, i + 1) - At(bt, i)
        combined == At(bt, i + 1) - At(bt, i - 1)
        before_ok == WithinTol20(interval_before, 1, m2)
        after_ok == WithinTol20(interval_after, 1, m2)
        combined_ok == WithinTol20(combined, 1, m2)
        combined_2x_ok == WithinTol20(combined, 2, m2)
        both_short == IsShort(interval_before, m2) /\ IsShort(interval_after, m2)
    IN  \/ (~(before_ok /\ after_ok) /\ combined_ok)
        \/ (both_short /\ combined_2x_ok)

\* one iteration of the while loop of step 2d on the beats st[1] and the
\* index st[2]: after a removal the same index is examined again
RemovalIteration(st, m2) ==
    IF IsFalseBeat(st[1], st[2], m2)
    THEN <<Delete(st[1], st[2]), st[2]>>
    ELSE <<st[1], st[2] + 1>>

RECURSIVE RemovalIterations(_, _, _)
\* what up to k iterations make of the beats st[1] and the index st[2], by
\* halves; the loop ends when i < len(beat_times) - 1 fails
RemovalIterations(st, k, m2) ==
    IF k = 0 THEN st
    ELSE IF k = 1 THEN RemovalIteration(st, m2)
    ELSE LET half == RemovalIterations(st, k \div 2, m2)
         IN  IF half[2] < Len(half[1]) - 1
             THEN RemovalIterations(half, k - k \div 2, m2)
             ELSE half

\* the while loop of step 2d: every iteration brings i one closer to
\* len(beat_times) - 1, so the loop makes len(beat_times) - 1 - i of them
RemovalLoop(bt, i, m2) ==
    IF i < Len(bt) - 1
    THEN RemovalIterations(<<bt, i>>, Len(bt) - 1 - i, m2)[1]
    ELSE bt

\* step 2d as a whole
FalseBeatRemoval(bt) ==
    IF Len(bt) >= 4 THEN RemovalLoop(bt, 1, Median2(Diffs(bt))) ELSE bt

----------------------------------------------------------------------------
(* Rationals, continued *)

RatLess(a, b) == a.n * b.d < b.n * a.d

LCM(a, b) == (a \div GCD(a, b)) * b

\* a + b over the least common denominator
RatAdd(a, b) ==
    LET l == LCM(a.d, b.d)
    IN  Rat(a.n * (l \div a.d) + b.n * (l \div b.d), l)

\* a + k * b for an integer k
RatAddTimes(a, k, b) == Rat(a.n * b.d + k * b.n * a.d, a.d * b.d)

\* pos + k * ((next_pos - pos) / n_beats)
Interpolate(pos, next_pos, n_beats, k) ==
    RatAddTimes(pos, k,
                Rat(next_pos.n * pos.d - pos.n * next_pos.d,
                    next_pos.d * pos.d * n_beats))

----------------------------------------------------------------------------
(* mp3_utils.py: reconstruct_serato_beats *)
(* A marker is a record with a position (a rational, in ticks) and         *)
(* beats_until_next or bpm (a rational, in hundredths of a BPM); the beats *)
(* returned are rationals, in ticks.                                       *)

\* marker.get('beats_until_next', 0)
GetBeatsUntilNext(marker) ==
    IF "beats_until_next" \in DOMAIN marker THEN marker.beats_until_next ELSE 0

\* marker.get('bpm', 0)
GetBpm(marker) == IF "bpm" \in DOMAIN marker THEN marker.bpm ELSE Rat(0, 1)

\* 60.0 / bpm seconds, in ticks
BeatInterval(bpm) == Rat(60 * 100 * 100 * bpm.d, bpm.n)

RECURSIVE InteriorLoop(_, _, _, _, _, _)
\* for k in range(1, n_beats): append, and return once max_beats are held
InteriorLoop(beats, pos, next_pos, n_beats, k, cap) ==
    IF k >= n_beats THEN [beats |-> beats, returned |-> FALSE]
    ELSE LET more == Append(beats, Interpolate(pos, next_pos, n_beats, k))
         IN  IF Len(more) >= cap THEN [beats |-> more, returned |-> TRUE]
             ELSE InteriorLoop(more, pos, next_pos, n_beats, k + 1, cap)

RECURSIVE TerminalLoopInclusive(_, _, _, _, _)
\* a terminal loop that also emits a beat that falls on max_time
TerminalLoopInclusive(beats, t, interval, max_time, cap) ==
    IF ~RatLess(max_time, t) /\ Len(beats) < cap
    THEN TerminalLoopInclusive(Append(beats, t), RatAdd(t, interval), interval,
                               max_time, cap)
    ELSE beats

RECURSIVE TerminalLoop(_, _, _, _, _)
\* while t < max_time and len(beats) < max_beats: append t; t += interval
TerminalLoop(beats, t, interval, max_time, cap) ==
    IF RatLess(t, max_time) /\ Len(beats) < cap
    THEN TerminalLoop(Append(beats, t), RatAdd(t, interval), interval,
                      max_time, cap)
    ELSE beats

RECURSIVE MarkerLoop(_, _, _, _, _)
\* for i, marker in enumerate(markers), i 1-based here
MarkerLoop(markers, i, beats, cap, dur) ==
    IF i > Len(markers) THEN beats
    ELSE LET pos == markers[i].position
             started == Append(beats, pos)
         IN  IF i < Len(markers)
             THEN LET n_beats == GetBeatsUntilNext(markers[i])
                  IN  IF n_beats > 0
                      THEN LET r == InteriorLoop(started, pos,
                                        markers[i + 1].position, n_beats, 1, cap)
                           IN  IF r.returned THEN r.beats
                               ELSE MarkerLoop(markers, i + 1, r.beats, cap, dur)
                      ELSE MarkerLoop(markers, i + 1, started, cap, dur)
             ELSE LET bpm == GetBpm(markers[i])
                  IN  IF bpm.n > 0
                      THEN LET interval == BeatInterval(bpm)
                               max_time ==
                                   IF dur # 0 THEN Rat(dur, 1)
                                   ELSE RatAddTimes(pos, cap, interval)
                           IN  TerminalLoop(started, RatAdd(pos, interval),
                                   interval, max_time, cap)
                      ELSE started

reconstruct_serato_beats(markers, cap, dur) ==
    IF markers = <<>> THEN <<>> ELSE MarkerLoop(markers, 1, <<>>, cap, dur)

----------------------------------------------------------------------------
(* Bytes: sequences of 0 .. 255, indexed from 0 as in the source *)

ByteAt(data, i) == data[i + 1]

\* data[i] does not raise IndexError
Indexable(data, i) == 0 <= i /\ i < Len(data)

\* data[a:b] for 0 <= a
Slice(data, a, b) == SubSeq(data, a + 1, Min(b, Len(data)))

MinOf(S) == CHOOSE x \in S : \A z \in S : x <= z

\* (b[0] & 0x7F) << 21 | (b[1] & 0x7F) << 14 | (b[2] & 0x7F) << 7 | b[3] & 0x7F
Synchsafe(b) ==
    (((b[1] % 128) * 128 + (b[2] % 128)) * 128 + (b[3] % 128)) * 128
    + (b[4] % 128)

\* struct.unpack('>I', b)[0]; the inputs keep these fields below 2^31
BigEndian(b) == ((b[1] * 256 + b[2]) * 256 + b[3]) * 256 + b[4]

\* 2^k for 0 <= k <= 30
Pow2(k) ==
    <<1, 2, 4, 8, 16, 32, 64, 128, 256, 512, 1024, 2048, 4096, 8192, 16384,
      32768, 65536, 131072, 262144, 524288, 1048576, 2097152, 4194304,
      8388608, 16777216, 33554432, 67108864, 134217728, 268435456,
      536870912, 1073741824>>[k + 1]

\* the number of times 2 divides n # 0
TwosIn(n) ==
    CHOOSE e \in 0 .. 30 : n % Pow2(e) = 0 /\ (n \div Pow2(e)) % 2 = 1

\* a binary float n * 2^k with n odd, or zero
Canonical(n, k) ==
    IF n = 0 THEN [n |-> 0, k |-> 0]
    ELSE [n |-> n \div Pow2(TwosIn(n)), k |-> k + TwosIn(n)]

\* the k of an infinity (n = 1 or -1) or of a NaN (n = 0)
NotFinite == 1000

\* a decoding that leaves out the implicit leading bit of the significand
Float32NoHiddenBit(b) ==
    LET sign == IF b[1] >= 128 THEN -1 ELSE 1
        exponent == (b[1] % 128) * 2 + (b[2] \div 128)
        fraction == ((b[2] % 128) * 256 + b[3]) * 256 + b[4]
    IN  IF exponent = 255
        THEN [n |-> IF fraction = 0 THEN sign ELSE 0, k |-> NotFinite]
        ELSE Canonical(sign * fraction, exponent - 150)

\* struct.unpack('>f', b)[0]: sign, 8 exponent bits, 23 fraction bits
Float32(b) ==
    LET sign == IF b[1] >= 128 THEN -1 ELSE 1
        exponent == (b[1] % 128) * 2 + (b[2] \div 128)
        fraction == ((b[2] % 128) * 256 + b[3]) * 256 + b[4]
    IN  IF exponent = 255
        THEN [n |-> IF fraction = 0 THEN sign ELSE 0, k |-> NotFinite]
        ELSE IF exponent = 0 THEN Canonical(sign * fraction, -149)
        ELSE Canonical(sign * (8388608 + fraction), exponent - 150)

\* bytes.decode('latin1'): byte b is code point b
DecodeLatin1(b) == b

\* bytes.decode('utf-16-le', errors='replace'): 16-bit little-endian units; a
\* trailing odd byte or a surrogate unit becomes U+FFFD
DecodeUtf16le(b) ==
    [i \in 1 .. ((Len(b) + 1) \div 2) |->
        IF 2 * i > Len(b) THEN 65533
        ELSE LET unit == b[2 * i - 1] + 256 * b[2 * i]
             IN  IF unit >= 55296 /\ unit <= 57343 THEN 65533 ELSE unit]

\* str.lower() on ASCII
Lower(str) == [i \in 1 .. Len(str) |->
                  IF str[i] >= 65 /\ str[i] <= 90 THEN str[i] + 32 ELSE str[i]]

EndsWith(str, suffix) ==
    /\ Len(str) >= Len(suffix)
    /\ SubSeq(str, Len(str) - Len(suffix) + 1, Len(str)) = suffix

StartsWith(data, prefix) ==
    Len(data) >= Len(prefix) /\ SubSeq(data, 1, Len(prefix)) = prefix

\* '.mp3'
DotMp3 == <<46, 109, 112, 51>>

\* b'ID3'
ID3 == <<73, 68, 51>>

\* b'GEOB'
GEOB == <<71, 69, 79, 66>>

\* 'Serato BeatGrid'
SeratoBeatGrid ==
    <<83, 101, 114, 97, 116, 111, 32, 66, 101, 97, 116, 71, 114, 105, 100>>

----------------------------------------------------------------------------
(* mp3_utils.py: read_serato_beatgrid *)

\* read_serato_beatgrid's None
None == [kind |-> "none", markers |-> <<>>]

\* an uncaught exception leaving read_serato_beatgrid
Raised == [kind |-> "raised", markers |-> <<>>]

Found(markers) == [kind |-> "markers", markers |-> markers]

RECURSIVE ParseMarkers(_, _, _, _, _)
\* for i in range(marker_count)
ParseMarkers(data, marker_count, i, pos, markers) ==
    IF i >= marker_count \/ pos + 8 > Len(data) THEN markers
    ELSE LET position == Float32(Slice(data, pos, pos + 4))
             marker ==
                 IF i < marker_count - 1
                 THEN [position |-> position,
                       beats_until_next |->
                           BigEndian(Slice(data, pos + 4, pos + 8))]
                 ELSE [position |-> position,
                       bpm |-> Float32(Slice(data, pos + 4, pos + 8))]
         IN  ParseMarkers(data, marker_count, i + 1, pos + 8,
                          Append(markers, marker))

\* a parser that returns the markers it could read, however many were
\* declared
ParsePartial(data) ==
    IF Len(data) < 6 THEN None
    ELSE IF ByteAt(data, 0) # 1 \/ ByteAt(data, 1) # 0 THEN None
    ELSE IF BigEndian(Slice(data, 2, 6)) = 0 THEN None
    ELSE IF ParseMarkers(data, BigEndian(Slice(data, 2, 6)), 0, 6, <<>>) = <<>>
    THEN None
    ELSE Found(ParseMarkers(data, BigEndian(Slice(data, 2, 6)), 0, 6, <<>>))

_parse_beatgrid_binary(data) ==
    IF Len(data) < 6 THEN None
    ELSE IF ByteAt(data, 0) # 1 \/ ByteAt(data, 1) # 0 THEN None
    ELSE LET marker_count == BigEndian(Slice(data, 2, 6))
         IN  IF marker_count = 0 THEN None
             ELSE LET markers == ParseMarkers(data, marker_count, 0, 6, <<>>)
                  IN  IF Len(markers) = marker_count THEN Found(markers)
                      ELSE None

\* find_null(data, start)
find_null(data, start) ==
    LET hits == {i \in start .. (Len(data) - 1) : ByteAt(data, i) = 0}
    IN  IF hits = {} THEN Len(data) ELSE MinOf(hits)

\* the position at which the double-null loop breaks, -1 when its else
\* branch runs
FindDoubleNull(data, pos) ==
    LET hits == {i \in pos .. (Len(data) - 2) :
                    ByteAt(data, i) = 0 /\ ByteAt(data, i + 1) = 0}
    IN  IF hits = {} THEN -1 ELSE MinOf(hits)

\* from the description test on
ParseGrid(desc_str, frame_data, pos) ==
    IF desc_str # SeratoBeatGrid THEN None
    ELSE LET grid_data == Slice(frame_data, pos, Len(frame_data))
             prefix == SeratoBeatGrid \o <<0>>
         IN  IF StartsWith(grid_data, prefix)
             THEN _parse_beatgrid_binary(
                      Slice(grid_data, Len(prefix), Len(grid_data)))
             ELSE _parse_beatgrid_binary(grid_data)

_parse_geob_serato_beatgrid(frame_data) ==
    IF Len(frame_data) < 4 THEN None
    ELSE LET encoding == ByteAt(frame_data, 0)
             after_mime == find_null(frame_data, 1) + 1
         IN  IF encoding \in {1, 2}
             THEN LET name_end == FindDoubleNull(frame_data, after_mime)
                      desc_start == name_end + 2
                      desc_end == FindDoubleNull(frame_data, desc_start)
                  IN  IF name_end < 0 THEN None
                      ELSE IF desc_end < 0 THEN None
                      ELSE ParseGrid(
                               DecodeUtf16le(
                                   Slice(frame_data, desc_start, desc_end)),
                               frame_data, desc_end + 2)
             ELSE LET after_name == find_null(frame_data, after_mime) + 1
                      null_pos == find_null(frame_data, after_name)
                  IN  ParseGrid(
                          DecodeLatin1(Slice(frame_data, after_name, null_pos)),
                          frame_data, null_pos + 1)

\* a frame loop that runs up to the end of the tag
MoreFramesToEnd(pos, end) == pos < end

\* while pos < end - 10
MoreFrames(pos, end) == pos < end - 10

RECURSIVE FrameLoop(_, _, _, _)
FrameLoop(tag_data, pos, end, version_major) ==
    IF ~MoreFrames(pos, end) THEN None
    ELSE LET frame_id == Slice(tag_data, pos, pos + 4)
         IN  IF ~Indexable(frame_id, 0) THEN Raised
             ELSE IF ByteAt(frame_id, 0) = 0 THEN None
             ELSE IF ~Indexable(tag_data, pos + 7) THEN Raised
             ELSE LET frame_size ==
                          IF version_major = 4
                          THEN Synchsafe(Slice(tag_data, pos + 4, pos + 8))
                          ELSE BigEndian(Slice(tag_data, pos + 4, pos + 8))
                      data_pos == pos + 10
                  IN  IF frame_size <= 0 \/ data_pos + frame_size > end
                      THEN None
                      ELSE LET result ==
                                   IF frame_id = GEOB
                                   THEN _parse_geob_serato_beatgrid(
                                            Slice(tag_data, data_pos,
                                                  data_pos + frame_size))
                                   ELSE None
                           IN  IF result # None THEN result
                               ELSE FrameLoop(tag_data, data_pos + frame_size,
                                              end, version_major)

_read_mp3_serato_beatgrid(f) ==
    IF ~f.readable THEN None
    ELSE LET header == Slice(f.content, 0, 10)
         IN  IF Len(header) < 10 \/ Slice(header, 0, 3) # ID3 THEN None
             ELSE LET version_major == ByteAt(header, 3)
                      tag_size == Synchsafe(Slice(header, 6, 10))
                      tag_data == Slice(f.content, 10, 10 + tag_size)
                  IN  IF Len(tag_data) < tag_size THEN None
                      ELSE FrameLoop(tag_data, 0, tag_size, version_major)

read_serato_beatgrid(f) ==
    IF EndsWith(Lower(f.path), DotMp3) THEN _read_mp3_serato_beatgrid(f)
    ELSE None

----------------------------------------------------------------------------
(* mp3_utils.py: get_mp3_encoder_delay *)

\* the LAME default returned when no delay can be read
DefaultDelay == 576

\* bytes read at first, the least length accepted, bytes read again after a
\* long ID3v2 tag, and the span searched for a frame sync
InitialRead == 16384

MinData == 128

ReRead == 4096

SearchSpan == 8192

\* an uncaught exception leaving get_mp3_encoder_delay
RaisedDelay == -1

\* b'Xing', b'Info'
Xing == <<88, 105, 110, 103>>

Info == <<73, 110, 102, 111>>

\* data[offset] == 0xFF
SyncByte(data, offset) == ByteAt(data, offset) = 255

\* (b1 & 0xE0) == 0xE0, and mpeg_ver != 1 and layer != 0
FrameSync(b1) ==
    /\ b1 \div 32 = 7
    /\ (b1 \div 8) % 4 # 1
    /\ (b1 \div 2) % 4 # 0

\* side information size from (header >> 19) & 3 and (header >> 6) & 3
SideInfoSize(header) ==
    LET mpeg_version == (header[2] \div 8) % 4
        channel_mode == header[4] \div 64
    IN  IF mpeg_version = 3
        THEN (IF channel_mode # 3 THEN 32 ELSE 17)
        ELSE (IF channel_mode # 3 THEN 17 ELSE 9)

\* the fields skipped for xing_flags, whose low byte is flags
XingFieldsSize(flags) ==
    (IF flags % 2 = 1 THEN 4 ELSE 0)
    + (IF (flags \div 2) % 2 = 1 THEN 4 ELSE 0)
    + (IF (flags \div 4) % 2 = 1 THEN 100 ELSE 0)
    + (IF (flags \div 8) % 2 = 1 THEN 4 ELSE 0)

\* all(32 <= b < 127 for b in version_bytes if b != 0)
VersionIsAscii(version_bytes) ==
    \A i \in 1 .. Len(version_bytes) :
        version_bytes[i] # 0 => (32 <= version_bytes[i] /\ version_bytes[i] < 127)

\* a delay taken from the low four bits of the second byte
EncoderDelayLowBits(b0, b1) == b0 * 16 + (b1 % 16)

\* (b0 << 4) | (b1 >> 4)
EncoderDelay(b0, b1) == b0 * 16 + (b1 \div 16)

\* from frame_start = offset on
ParseXing(data, frame_start) ==
    IF frame_start + 4 > Len(data) THEN DefaultDelay
    ELSE LET header == Slice(data, frame_start, frame_start + 4)
             xing_offset == frame_start + 4 + SideInfoSize(header)
         IN  IF xing_offset + 8 > Len(data) THEN DefaultDelay
             ELSE IF Slice(data, xing_offset, xing_offset + 4) \notin {Xing, Info}
             THEN DefaultDelay
             ELSE LET pos == xing_offset + 8
                             + XingFieldsSize(ByteAt(data, xing_offset + 7))
                      delay_offset == pos + 21
                  IN  IF delay_offset + 3 > Len(data) THEN DefaultDelay
                      ELSE IF ~VersionIsAscii(Slice(data, pos, pos + 9))
                      THEN DefaultDelay
                      ELSE LET delay ==
                                   EncoderDelay(ByteAt(data, delay_offset),
                                                ByteAt(data, delay_offset + 1))
                           IN  IF 0 < delay /\ delay < 5000 THEN delay
                               ELSE DefaultDelay

\* the while loop over offset: it stops at the first 0xFF whose next byte
\* cannot be read or makes a frame sync
FindSync(data, offset) ==
    LET max_search == Min(Len(data) - 4, offset + SearchSpan)
        stops == {o \in offset .. (max_search - 1) :
                     /\ SyncByte(data, o)
                     /\ \/ ~Indexable(data, o + 1)
                        \/ FrameSync(ByteAt(data, o + 1))}
    IN  IF stops = {} THEN DefaultDelay
        ELSE IF ~Indexable(data, MinOf(stops) + 1) THEN RaisedDelay
        ELSE ParseXing(data, MinOf(stops))

get_mp3_encoder_delay(f) ==
    IF ~EndsWith(Lower(f.path), DotMp3) THEN 0
    ELSE IF ~f.readable THEN DefaultDelay
    ELSE LET data == Slice(f.content, 0, InitialRead)
         IN  IF Len(data) < MinData THEN DefaultDelay
             ELSE IF Slice(data, 0, 3) = ID3
             THEN LET size == Synchsafe(Slice(data, 6, 10))
                      offset == 10 + size
                  IN  IF offset + ReRead > Len(data)
                      THEN FindSync(Slice(f.content, offset, offset + ReRead), 0)
                      ELSE FindSync(data, offset)
             ELSE FindSync(data, 0)

----------------------------------------------------------------------------
(* More rationals *)

RatSub(a, b) == Rat(a.n * b.d - b.n * a.d, a.d * b.d)

RatMul(a, b) == Rat(a.n * b.n, a.d * b.d)

RatLeq(a, b) == a.n * b.d <= b.n * a.d

RatAbs(a) == [n |-> Abs(a.n), d |-> a.d]

\* floor of a rational
RatFloor(a) == a.n \div a.d

\* round(a), ties to even as Python's round does
RatRound(a) ==
    IF a.n >= 0 THEN RoundDiv(a.n, a.d) ELSE -RoundDiv(-a.n, a.d)

RECURSIVE DenBetween(_, _, _)
\* the least common denominator of rs[lo], ..., rs[hi], by halves
DenBetween(rs, lo, hi) ==
    IF lo > hi THEN 1
    ELSE IF lo = hi THEN rs[lo].d
    ELSE LCM(DenBetween(rs, lo, (lo + hi) \div 2),
             DenBetween(rs, (lo + hi) \div 2 + 1, hi))

\* the least common denominator of a sequence of rationals
CommonDen(rs) == DenBetween(rs, 1, Len(rs))

\* the rationals bt[i] / d
Rats(bt, d) == [i \in 1 .. Len(bt) |-> Rat(bt[i], d)]

\* the numerators of rs over the denominator d
Numerators(rs, d) == [i \in 1 .. Len(rs) |-> rs[i].n * (d \div rs[i].d)]

\* whether seq[j] stands before seq[i] in the sorted order: it is smaller,
\* or equal and earlier
SortsBefore(seq, j, i) ==
    \/ RatLess(seq[j], seq[i])
    \/ (~RatLess(seq[i], seq[j]) /\ j < i)

\* np.sort: the k-th entry is the one that k - 1 entries stand before
SortRats(rs) ==
    LET seq == SubSeq(rs, 1, Len(rs))
        before == [i \in 1 .. Len(seq) |->
                     Cardinality({j \in 1 .. Len(seq) : SortsBefore(seq, j, i)})]
                  \o <<>>
    IN  [k \in 1 .. Len(seq) |->
            seq[CHOOSE i \in 1 .. Len(seq) : before[i] = k - 1]] \o <<>>

\* np.median of a non-empty sequence
RatMedian(rs) ==
    LET s == SortRats(rs)
        n == Len(rs)
    IN  IF n % 2 = 1 THEN s[(n + 1) \div 2]
        ELSE RatMul(RatAdd(s[n \div 2], s[n \div 2 + 1]), Rat(1, 2))

----------------------------------------------------------------------------
(* __main__.py: the audio signal *)
(* y is held as its length in samples and one amplitude for each block of  *)
(* BlockSamples samples; Sample reads y[i].                                *)

\* the sample rate librosa.load returns (44100 in the source); the model
\* samples at 1000 Hz, 10 samples to a tick
sr == 1000

\* samples that share one amplitude (100 ms)
BlockSamples == 100

Sample(audio, i) == audio.levels[(i \div BlockSamples) + 1]

\* int(b * sr) for the beat b / d ticks, b >= 0
SampleIndex(b, d) == (b * sr) \div (100 * d)

\* int(0.03 * sr)
RmsWindow == (3 * sr) \div 100

\* np.mean(y[max(0, s - window):s + window] ** 2), the square of the RMS
MeanSquare(audio, s) ==
    LET lo == Max(0, s - RmsWindow)
        hi == Min(s + RmsWindow, audio.len)
        squares == [i \in lo .. (hi - 1) |-> Sample(audio, i) * Sample(audio, i)]
    IN  Rat(SumOver(squares, lo .. (hi - 1)), hi - lo)

----------------------------------------------------------------------------
(* __main__.py, step 2a: first-beat override *)

\* first_beat_override is None
NoOverride == -1

\* int(np.argmin(np.abs(beat_times - x))), 0-based: the first nearest beat
ArgMinDistance(bt, x) ==
    MinOf({i \in 0 .. (Len(bt) - 1) :
              \A j \in 0 .. (Len(bt) - 1) :
                  Abs(At(bt, i) - x) <= Abs(At(bt, j) - x)})

\* the beats kept when the override position is inserted, with no filter
KeepAll(bt, x) == bt

\* beat_times[beat_times >= first_beat_override]
KeepFrom(bt, x) ==
    LET NotBefore(b) == b >= x
    IN  SelectSeq(bt, NotBefore)

\* step 2a for the override position x (in units of beat_times), d = den
OverrideFirstBeat(bt, d, x) ==
    LET nearest_idx == ArgMinDistance(bt, x)
    IN  IF Abs(At(bt, nearest_idx) - x) <= 5 * d
        THEN SubSeq(bt, nearest_idx + 1, Len(bt))
        ELSE <<x>> \o KeepFrom(bt, x)

----------------------------------------------------------------------------
(* __main__.py, step 2b: weak leading beats *)

\* rms >= 0.20 * median of the RMS values whose squares are upper, given the
\* square a of rms: with r the median, a >= r^2 / 25
MeetsThreshold(a, upper) ==
    LET n == Len(upper)
    IN  IF n % 2 = 1
        THEN RatLeq(upper[(n + 1) \div 2], RatMul(Rat(25, 1), a))
        ELSE LET lo == upper[n \div 2]
                 hi == upper[n \div 2 + 1]
                 \* 100 a - lo - hi >= 2 sqrt(lo hi)
                 rest == RatSub(RatMul(Rat(100, 1), a), RatAdd(lo, hi))
             IN  /\ rest.n >= 0
                 /\ RatLeq(RatMul(Rat(4, 1), RatMul(lo, hi)), RatMul(rest, rest))

\* first_strong: the index of the first beat that meets the threshold, 0 if
\* there is none
FirstStrong(bt, d, audio) ==
    LET beat_ms == [i \in 1 .. Len(bt) |->
                       MeanSquare(audio, SampleIndex(bt[i], d))]
        sorted_ms == SortRats(beat_ms)
        upper_half == SubSeq(sorted_ms, (Len(bt) \div 2) + 1, Len(bt))
        strong == {i \in 0 .. (Len(bt) - 1) :
                      MeetsThreshold(At(beat_ms, i), upper_half)}
    IN  IF strong = {} THEN 0 ELSE MinOf(strong)

\* a step 2b without the guard on the number of beats
TrimWeakLeadingAnyLength(bt, d, audio) ==
    SubSeq(bt, FirstStrong(bt, d, audio) + 1, Len(bt))

\* step 2b
TrimWeakLeading(bt, d, audio) ==
    IF Len(bt) >= 4
    THEN SubSeq(bt, FirstStrong(bt, d, audio) + 1, Len(bt))
    ELSE bt

----------------------------------------------------------------------------
(* __main__.py, step 2c: leading-beat extrapolation *)
(* The beats are doubled so that the median interval is an integer.        *)

RECURSIVE ExtrapolateLoopAnyEnergy(_, _, _, _, _, _)
\* a loop that prepends without looking at the energy
ExtrapolateLoopAnyEnergy(bt2, d, m2, first_ms, audio, count) ==
    LET extrapolated == bt2[1] - m2
        sample_idx == SampleIndex(extrapolated, 2 * d)
    IN  IF extrapolated < 0 THEN [beats |-> bt2, count |-> count]
        ELSE IF sample_idx >= audio.len THEN [beats |-> bt2, count |-> count]
        ELSE ExtrapolateLoopAnyEnergy(<<extrapolated>> \o bt2, d, m2,
                                      first_ms, audio, count + 1)

RECURSIVE ExtrapolateLoop(_, _, _, _, _, _)
\* while True: bt2 holds the beats in units of 1 / (2 d) ticks, m2 the
\* median interval in the same units, first_ms the square of first_beat_rms
ExtrapolateLoop(bt2, d, m2, first_ms, audio, count) ==
    LET extrapolated == bt2[1] - m2
        sample_idx == SampleIndex(extrapolated, 2 * d)
    IN  IF extrapolated < 0 THEN [beats |-> bt2, count |-> count]
        ELSE IF sample_idx >= audio.len THEN [beats |-> bt2, count |-> count]
        ELSE IF RatLess(RatMul(Rat(16, 1), MeanSquare(audio, sample_idx)),
                        first_ms)
        THEN [beats |-> bt2, count |-> count]
        ELSE ExtrapolateLoop(<<extrapolated>> \o bt2, d, m2, first_ms, audio,
                             count + 1)

\* step 2c: the beats in units of 1 / (2 d) ticks and prepend_count
ExtrapolateLeading(bt, d, audio) ==
    LET doubled == [i \in 1 .. Len(bt) |-> 2 * bt[i]]
    IN  IF Len(bt) >= 2
        THEN LET n_check == Min(8, Len(bt) - 1)
                 m2 == Median2(Diffs(SubSeq(bt, 1, n_check + 1)))
             IN  ExtrapolateLoop(doubled, d, m2,
                     MeanSquare(audio, SampleIndex(bt[1], d)), audio, 0)
        ELSE [beats |-> doubled, count |-> 0]

----------------------------------------------------------------------------
(* __main__.py, step 2e: grid snapping *)
(* Beats are integers in units of 1 / d ticks; the estimates, the fitted   *)
(* line and the grid are rationals in the same units.                      *)

\* 4 * np.percentile(xs, 25 * p), by linear interpolation between the two
\* nearest order statistics
Quartile4(xs, p) ==
    LET idx4 == p * (Len(xs) - 1)
        lo == KthSmallest(xs, (idx4 \div 4) + 1)
    IN  IF idx4 % 4 = 0 THEN 4 * lo
        ELSE 4 * lo + (idx4 % 4) * (KthSmallest(xs, (idx4 \div 4) + 2) - lo)

\* iqr_ratio < 0.03, with (q75 - q25) / median_interval as the ratio
IsConstantTempo(intervals) ==
    50 * (Quartile4(intervals, 3) - Quartile4(intervals, 1))
        < 3 * Median2(intervals)

\* int(np.sum(mod_dist < 0.030)) for trial = total_span / c
NGood(bt, d, c) ==
    LET total_span == bt[Len(bt)] - bt[1]
        Offset(i) == ((bt[i] - bt[1]) * c) % total_span
    IN  Cardinality({i \in 1 .. Len(bt) :
                        Min(Offset(i), total_span - Offset(i)) < 3 * d * c})

RECURSIVE CandidateLoop(_, _, _, _, _, _)
\* for delta in range(-5, 6): the first candidate with the most good beats
CandidateLoop(bt, d, base_count, delta, best_est, best_good) ==
    LET c == base_count + delta
    IN  IF delta > 5 THEN best_est
        ELSE IF c <= 0
        THEN CandidateLoop(bt, d, base_count, delta + 1, best_est, best_good)
        ELSE IF NGood(bt, d, c) > best_good
        THEN CandidateLoop(bt, d, base_count, delta + 1,
                           Rat(bt[Len(bt)] - bt[1], c), NGood(bt, d, c))
        ELSE CandidateLoop(bt, d, base_count, delta + 1, best_est, best_good)

\* est_interval
EstimateInterval(bt, d) ==
    LET m2 == Median2(Diffs(bt))
        total_span == bt[Len(bt)] - bt[1]
        base_count == RoundDiv(2 * total_span, m2)
    IN  CandidateLoop(bt, d, base_count, -5,
                      IF base_count > 0 THEN Rat(total_span, base_count)
                      ELSE Rat(m2, 2),
                      0)

\* a numbering by the rounded gap alone, which may be 0
BeatNumberRounded(bt, est, i) ==
    SumOver([k \in 1 .. i |->
                RoundDiv((At(bt, k) - At(bt, k - 1)) * est.d, est.n)],
            1 .. i)

\* beat_numbers[i], 0-based: the sum of max(1, round(gap / est_interval))
\* over the gaps before beat i
BeatNumber(bt, est, i) ==
    SumOver([k \in 1 .. i |->
                Max(1, RoundDiv((At(bt, k) - At(bt, k - 1)) * est.d, est.n))],
            1 .. i)

\* the elements of a finite set of integers in increasing order
Ascending(S) ==
    LET lo == CHOOSE x \in S : \A z \in S : x <= z
        hi == CHOOSE x \in S : \A z \in S : x >= z
        Member(x) == x \in S
    IN  IF S = {} THEN <<>>
        ELSE SelectSeq([k \in 1 .. (hi - lo + 1) |-> lo + k - 1], Member)

\* np.unique(numbers, return_index=True)[1]: the index of the first
\* occurrence of each value, by increasing value; numbers never decrease
UniqueIdx(numbers) ==
    Ascending({i \in 1 .. Len(numbers) :
                  \A j \in 1 .. (i - 1) : numbers[j] # numbers[i]})

\* a + k * b over the least common denominator
Fitted(intercept, k, slope) ==
    LET l == LCM(intercept.d, slope.d)
    IN  Rat(intercept.n * (l \div intercept.d) + k * slope.n * (l \div slope.d), l)

\* np.abs(clean_beats - fitted) < 0.030
GoodMask(clean_beats, clean_numbers, d, slope, intercept) ==
    [i \in 1 .. Len(clean_beats) |->
        LET f == Fitted(intercept, clean_numbers[i], slope)
        IN  Abs(clean_beats[i] * f.d - f.n) < 3 * d * f.d]

\* np.polyfit(xs, ys, 1): the least-squares line through at least two points
\* with distinct xs
PolyFit(xs, ys) ==
    LET n == Len(xs)
        sx == SumOver(xs, 1 .. n)
        sy == SumOver(ys, 1 .. n)
        sxx == SumOver([i \in 1 .. n |-> xs[i] * xs[i]], 1 .. n)
        sxy == SumOver([i \in 1 .. n |-> xs[i] * ys[i]], 1 .. n)
        det == n * sxx - sx * sx
    IN  [slope |-> Rat(n * sxy - sx * sy, det),
         intercept |-> Rat(sy * sxx - sx * sxy, det)]

\* the entries of xs at the 1-based indexes idx
Pick(xs, idx) == [j \in 1 .. Len(idx) |-> xs[idx[j]]]

\* np.where(good_mask)[0], 1-based
GoodIdx(good_mask) == Ascending({i \in 1 .. Len(good_mask) : good_mask[i]})

LineFit(slope, intercept, good_mask) ==
    [slope |-> slope, intercept |-> intercept, good_mask |-> good_mask]

RECURSIVE FitLoop(_, _, _, _, _)

\* one iteration, after np.polyfit returned line
FitStep(clean_beats, clean_numbers, d, fit, iteration, line) ==
    IF line.slope.n <= 0
    THEN LineFit(line.slope, line.intercept, fit.good_mask)
    ELSE IF GoodMask(clean_beats, clean_numbers, d, line.slope, line.intercept)
            = fit.good_mask
    THEN LineFit(line.slope, line.intercept, fit.good_mask)
    ELSE FitLoop(clean_beats, clean_numbers, d,
                 LineFit(line.slope, line.intercept,
                         GoodMask(clean_beats, clean_numbers, d, line.slope,
                                  line.intercept)),
                 iteration + 1)

\* for iteration in range(5); fit holds slope, intercept and good_mask
FitLoop(clean_beats, clean_numbers, d, fit, iteration) ==
    IF iteration >= 5 THEN fit
    ELSE IF Len(GoodIdx(fit.good_mask)) < 4 THEN fit
    ELSE FitStep(clean_beats, clean_numbers, d, fit, iteration,
                 PolyFit(Pick(clean_numbers, GoodIdx(fit.good_mask)),
                         Pick(clean_beats, GoodIdx(fit.good_mask))))

\* intercept = np.median(clean_beats - clean_numbers * slope)
SeedIntercept(clean_beats, clean_numbers, slope) ==
    RatMedian([j \in 1 .. Len(clean_beats) |->
                  Fitted(Rat(clean_beats[j], 1), -clean_numbers[j], slope)])

\* the seed, its good_mask, and the iterative regression
FitSeeded(clean_beats, clean_numbers, d, slope, intercept) ==
    FitLoop(clean_beats, clean_numbers, d,
            LineFit(slope, intercept,
                    GoodMask(clean_beats, clean_numbers, d, slope, intercept)),
            0)

\* clean_beats and clean_numbers, then the fit
FitNumbered(bt, d, est_interval, beat_numbers) ==
    FitSeeded(Pick(bt, UniqueIdx(beat_numbers)),
              Pick(beat_numbers, UniqueIdx(beat_numbers)), d, est_interval,
              SeedIntercept(Pick(bt, UniqueIdx(beat_numbers)),
                            Pick(beat_numbers, UniqueIdx(beat_numbers)),
                            est_interval))

\* beat_numbers for est_interval, then the fit
FitGrid(bt, d, est_interval) ==
    FitNumbered(bt, d, est_interval,
                [i \in 1 .. Len(bt) |-> BeatNumber(bt, est_interval, i - 1)])

\* clean_numbers[good_mask]
GoodNumbers(bt, est_interval, fit) ==
    Pick(Pick([i \in 1 .. Len(bt) |-> BeatNumber(bt, est_interval, i - 1)],
              UniqueIdx([i \in 1 .. Len(bt) |-> BeatNumber(bt, est_interval, i - 1)])),
         GoodIdx(fit.good_mask))

\* rationals in units of 1 / d ticks, as rationals in ticks
InTicks(rs, d) == [i \in 1 .. Len(rs) |-> Rat(rs[i].n, rs[i].d * d)]

\* grid = intercept + grid_numbers * slope; grid[grid >= 0]
GridPoints(fit, first_num, last_num) ==
    LET NotNegative(g) == g.n >= 0
    IN  SelectSeq([k \in 1 .. (last_num - first_num + 1) |->
                      Fitted(fit.intercept, first_num + k - 1, fit.slope)],
                  NotNegative)

\* an acceptance test that asks only for a positive slope
SnapFittedAnyInliers(bt, d, fit, good_numbers) ==
    IF good_numbers # <<>> /\ fit.slope.n > 0
    THEN InTicks(GridPoints(fit, good_numbers[1], good_numbers[Len(good_numbers)]),
                 d)
    ELSE Rats(bt, d)

\* the acceptance test and the grid, given the fit and clean_numbers[good_mask]
SnapFitted(bt, d, fit, good_numbers) ==
    IF 10 * Len(good_numbers) >= 8 * Len(fit.good_mask) /\ fit.slope.n > 0
    THEN InTicks(GridPoints(fit, good_numbers[1], good_numbers[Len(good_numbers)]),
                 d)
    ELSE Rats(bt, d)

SnapEstimated(bt, d, est_interval) ==
    SnapFitted(bt, d, FitGrid(bt, d, est_interval),
               GoodNumbers(bt, est_interval, FitGrid(bt, d, est_interval)))

\* step 2e: the beats after snapping, rationals in ticks
SnapToGrid(bt, d) ==
    IF Len(bt) >= 8 /\ IsConstantTempo(Diffs(bt))
    THEN SnapEstimated(bt, d, EstimateInterval(bt, d))
    ELSE Rats(bt, d)

----------------------------------------------------------------------------
(* __main__.py, step 2f: the Serato position offset *)

\* standard MPEG1 Layer III decoder delay, in samples
MPEG1_DECODER_DELAY == 529

\* the finite float f times scale, as a rational
FloatTimes(f, scale) ==
    IF f.k >= 0 THEN Rat(f.n * Pow2(f.k) * scale, 1)
    ELSE Rat(f.n * scale, Pow2(-f.k))

\* a marker as reconstruct_serato_beats reads it: the position in ticks, the
\* bpm in hundredths
MarkerInTicks(marker) ==
    IF "bpm" \in DOMAIN marker
    THEN [position |-> FloatTimes(marker.position, 100),
          bpm |-> FloatTimes(marker.bpm, 100)]
    ELSE [position |-> FloatTimes(marker.position, 100),
          beats_until_next |-> marker.beats_until_next]

\* the Serato beat nearest to our_beat: int(np.argmin(dists)), 1-based here
NearestSerato(serato, our_beat) ==
    MinOf({i \in 1 .. Len(serato) :
              \A j \in 1 .. Len(serato) :
                  RatLeq(RatAbs(RatSub(serato[i], our_beat)),
                         RatAbs(RatSub(serato[j], our_beat)))})

\* method 1: the offsets of the pairs within 100 ms, over the first n beats
DirectOffsets(serato, ours, n) ==
    LET Offset(i) == RatSub(serato[NearestSerato(serato, ours[i])], ours[i])
        Within100(off) == RatLess(RatAbs(off), Rat(10, 1))
    IN  SelectSeq([i \in 1 .. n |-> Offset(i)], Within100)

\* the number of the grid point nearest to the beat b
NearestStep(serato_start, serato_interval, b) ==
    RatRound(Rat(RatSub(b, serato_start).n * serato_interval.d,
                 RatSub(b, serato_start).d * serato_interval.n))

\* method 2: the offsets to the nearest point of a single-marker grid, kept
\* when within a quarter of the beat interval
GridOffsets(serato_start, serato_interval, ours, n) ==
    LET Offset(i) ==
            RatSub(Fitted(serato_start,
                          NearestStep(serato_start, serato_interval, ours[i]),
                          serato_interval),
                   ours[i])
        WithinQuarter(off) ==
            RatLess(RatMul(Rat(4, 1), RatAbs(off)), serato_interval)
    IN  SelectSeq([i \in 1 .. n |-> Offset(i)], WithinQuarter)

\* calibrated_offset is None
NoOffset == [kind |-> "none", value |-> Rat(0, 1)]

\* a matching that prefers the grid-point deltas whenever there are 10 or
\* more of them
CollectOffsetsGridFirst(markers, serato, ours) ==
    LET n == Min(100, Len(ours))
        direct == DirectOffsets(serato, ours, n)
    IN  IF Len(markers) = 1 /\ "bpm" \in DOMAIN markers[1]
           /\ GetBpm(markers[1]).n > 0
           /\ Len(GridOffsets(markers[1].position,
                              BeatInterval(GetBpm(markers[1])), ours, n)) >= 10
        THEN GridOffsets(markers[1].position,
                         BeatInterval(GetBpm(markers[1])), ours, n)
        ELSE direct

\* a matching that reads every beat of the saved copy
CollectOffsetsAllBeats(markers, serato, ours) ==
    LET direct == DirectOffsets(serato, ours, Len(ours))
    IN  IF Len(direct) < 10 /\ Len(markers) = 1
           /\ "bpm" \in DOMAIN markers[1] /\ GetBpm(markers[1]).n > 0
           /\ Len(GridOffsets(markers[1].position,
                              BeatInterval(GetBpm(markers[1])), ours,
                              Len(ours))) >= 10
        THEN GridOffsets(markers[1].position, BeatInterval(GetBpm(markers[1])),
                         ours, Len(ours))
        ELSE direct

\* calibrated_offset from the markers read and the beats rebuilt from them
\* lines 359-385: the deltas of method 1, replaced by those of method 2 when
\* method 1 found fewer than 10 and the single-marker grid gives 10 or more
CollectOffsets(markers, serato, ours) ==
    LET n == Min(100, Len(ours))
        direct == DirectOffsets(serato, ours, n)
        bpm == GetBpm(markers[1])
        grid_offsets == GridOffsets(markers[1].position, BeatInterval(bpm),
                                    ours, n)
    IN  IF Len(direct) < 10 /\ Len(markers) = 1
           /\ "bpm" \in DOMAIN markers[1] /\ bpm.n > 0
           /\ Len(grid_offsets) >= 10
        THEN grid_offsets ELSE direct

\* lines 390-407: the median of 10 or more deltas, kept when it lies in
\* [-10 ms, 60 ms]
AcceptMedian(deltas) ==
    IF Len(deltas) < 10 THEN NoOffset
    ELSE IF RatLeq(Rat(-1, 1), RatMedian(deltas))
            /\ RatLeq(RatMedian(deltas), Rat(6, 1))
    THEN [kind |-> "value", value |-> RatMedian(deltas)]
    ELSE NoOffset

\* lines 353-407: nothing is collected without markers or with fewer than
\* 4 reconstructed beats
Collected(markers, serato, ours) ==
    IF markers # <<>> /\ Len(serato) >= 4
    THEN CollectOffsets(markers, serato, ours) ELSE <<>>

\* int(0.025 * sr)
PeakWindow == (25 * sr) \div 1000

\* int(np.argmax(np.abs(y[start:end]))): the first largest sample
PeakIndex(audio, start, end) ==
    MinOf({i \in 0 .. (end - start - 1) :
              \A j \in 0 .. (end - start - 1) :
                  Abs(Sample(audio, start + j)) <= Abs(Sample(audio, start + i))})

\* peak_offsets, in ticks, for beats that are rationals in ticks and >= 0
PeakOffsets(bt, audio) ==
    LET Start(i) == (bt[i].n * sr) \div (100 * bt[i].d)
        End(i) == Min(Start(i) + PeakWindow, audio.len)
        measured == Ascending({i \in 1 .. Len(bt) : End(i) - Start(i) >= 10})
    IN  [j \in 1 .. Len(measured) |->
            Rat(100 * PeakIndex(audio, Start(measured[j]), End(measured[j])), sr)]

\* a measurement that does not ask for 4 beats
OnsetToPeakAnyLength(bt, audio) ==
    IF PeakOffsets(bt, audio) # <<>>
    THEN LET m == RatMedian(PeakOffsets(bt, audio))
         IN  IF RatLess(m, Rat(1, 10)) THEN Rat(1, 10)
             ELSE IF RatLess(Rat(2, 1), m) THEN Rat(2, 1)
             ELSE m
    ELSE Rat(1, 2)

\* onset_to_peak_s, in ticks
OnsetToPeak(bt, audio) ==
    IF Len(bt) >= 4 /\ PeakOffsets(bt, audio) # <<>>
    THEN LET m == RatMedian(PeakOffsets(bt, audio))
         IN  IF RatLess(m, Rat(1, 10)) THEN Rat(1, 10)
             ELSE IF RatLess(Rat(2, 1), m) THEN Rat(2, 1)
             ELSE m
    ELSE Rat(1, 2)

\* codec_delay_s, in ticks
CodecDelay(encoder_delay_samples) ==
    IF encoder_delay_samples > 0
    THEN Rat(100 * (encoder_delay_samples + MPEG1_DECODER_DELAY), sr)
    ELSE Rat(0, 1)

\* an addition that applies the offset twice
ShiftTwice(bt, added) ==
    [i \in 1 .. Len(bt) |-> RatAdd(RatAdd(bt[i], added), added)]

\* beat_times + total_offset
Shift(bt, added) == [i \in 1 .. Len(bt) |-> RatAdd(bt[i], added)]

----------------------------------------------------------------------------
(* Inputs *)

\* inter-beat intervals, in ticks
Intervals == {40, 50, 55, 60}

\* the first beat position
FirstBeats == {7}

RECURSIVE Cumulate(_, _)
\* beat positions from a first beat and the intervals that follow
Cumulate(first, ivs) ==
    IF ivs = <<>> THEN <<first>>
    ELSE <<first>> \o Cumulate(first + Head(ivs), Tail(ivs))

RECURSIVE Repeat(_, _)
Repeat(p, r) == IF r = 0 THEN <<>> ELSE p \o Repeat(p, r - 1)

SeqsUpTo(S, n) == UNION {[1 .. m -> S] : m \in 0 .. n}

IntervalSeqs ==
    SeqsUpTo(Intervals, MaxLen)
    \cup {Repeat(p, r) : p \in UNION {[1 .. m -> Intervals] : m \in 1 .. MaxPeriod},
                         r \in 1 .. MaxRepeat}

\* steady runs of 500 ms intervals around one interval that differs
OneOffSeqs ==
    {Repeat(<<50>>, a) \o <<x>> \o Repeat(<<50>>, b) :
        a \in {5, 6, 8}, b \in {6, 9}, x \in {40, 55, 60}}

BeatInputs ==
    {<<>>}
    \cup {Cumulate(f, ivs) : f \in FirstBeats, ivs \in IntervalSeqs \cup OneOffSeqs}

\* the denominator of the beat times that are no whole number of
\* microseconds
FineDen == 3

\* the same tracks a third of a tick (3.333... ms) later, in units of
\* 1 / FineDen ticks
FineBeatInputs ==
    {[i \in 1 .. Len(bt) |-> FineDen * bt[i] + 1] : bt \in BeatInputs \ {<<>>}}

----------------------------------------------------------------------------
(* segment_tempo, one action per step of its pipeline *)

\* the tolerances a run is made with, in ticks: 20 ms (the default) and 30 ms
DriftChoices == {2, 3}

\* the variables of reconstruct_serato_beats while another operation runs
ReconIdle ==
    /\ existing_markers = <<>>
    /\ max_beats = 0
    /\ duration = 0
    /\ serato_beats = <<>>

\* the file, and what was read from it, while no file operation runs
FileIdle ==
    /\ file = [path |-> <<>>, readable |-> FALSE, content |-> <<>>]
    /\ grid = None
    /\ encoder_delay = 0
    /\ marker_blob = <<>>

\* the variables of main() while one of its parts runs on its own
PipeIdle ==
    /\ y = [len |-> 0, levels |-> <<>>]
    /\ first_beat_override = NoOverride
    /\ raw_beats = <<>>
    /\ pre_snap_beats = <<>>
    /\ prepend_count = 0
    /\ calibrated_offset = NoOffset
    /\ total_offset = Rat(0, 1)
    /\ offsets = <<>>
    /\ scan_index = 0

InitSeg ==
    /\ pc = "start"
    /\ \/ (beat_times \in BeatInputs /\ den = 1)
       \/ (beat_times \in FineBeatInputs /\ den = FineDen)
    /\ prev_beats = <<>>
    /\ max_drift_ms \in DriftChoices
    /\ segments = <<>>
    /\ ReconIdle
    /\ FileIdle
    /\ PipeIdle

\* a guard that returns no segment for a single beat either
DegenerateAlwaysEmpty(bt) == <<>>

\* lines 34-42: the placeholder segment, or no segment
Degenerate(bt) ==
    IF Len(bt) = 1
    THEN <<Segment(0, 0, Unrounded(At(bt, 0)), DefaultBpm, 1)>>
    ELSE <<>>

\* len(beat_times) < 2: segment_tempo returns at once
SegDegenerate ==
    /\ pc = "start"
    /\ Len(beat_times) < 2
    /\ segments' = Degenerate(beat_times)
    /\ pc' = "done"
    /\ UNCHANGED <<beat_times, den, prev_beats, max_drift_ms, reconVars, fileVars, pipeVars>>

\* step 1: _build_segments
SegBuild ==
    /\ pc = "start"
    /\ Len(beat_times) >= 2
    /\ segments' = _build_segments(beat_times, max_drift_ms * den)
    /\ pc' = "built"
    /\ UNCHANGED <<beat_times, den, prev_beats, max_drift_ms, reconVars, fileVars, pipeVars>>

\* step 2: _bridge_outliers
SegBridge ==
    /\ pc = "built"
    /\ segments' = _bridge_outliers(segments, beat_times, max_drift_ms * den)
    /\ pc' = "bridged"
    /\ UNCHANGED <<beat_times, den, prev_beats, max_drift_ms, reconVars, fileVars, pipeVars>>

\* step 3: _consolidate_constant_tempo, then return
SegConsolidate ==
    /\ pc = "bridged"
    /\ segments' = _consolidate_constant_tempo(segments, beat_times)
    /\ pc' = "done"
    /\ UNCHANGED <<beat_times, den, prev_beats, max_drift_ms, reconVars, fileVars, pipeVars>>

NextSeg == SegDegenerate \/ SegBuild \/ SegBridge \/ SegConsolidate

SpecSeg == InitSeg /\ [][NextSeg]_vars

----------------------------------------------------------------------------
(* False beat removal on its own: one pass, then a pass over its output *)

\* intervals of the removal inputs, in ticks
RemovalIntervals == {2, 25, 50, 98, 100}

RemovalInputs ==
    {Cumulate(0, ivs) : ivs \in SeqsUpTo(RemovalIntervals, MaxLen)}

InitRemoval ==
    /\ pc = "detected"
    /\ beat_times \in RemovalInputs
    /\ den = 1
    /\ prev_beats = <<>>
    /\ max_drift_ms = 2
    /\ segments = <<>>
    /\ ReconIdle
    /\ FileIdle
    /\ PipeIdle

RemoveOnce ==
    /\ pc = "detected"
    /\ beat_times' = FalseBeatRemoval(beat_times)
    /\ prev_beats' = beat_times
    /\ pc' = "cleaned"
    /\ UNCHANGED <<den, segVars, reconVars, fileVars, pipeVars>>

RemoveAgain ==
    /\ pc = "cleaned"
    /\ beat_times' = FalseBeatRemoval(beat_times)
    /\ prev_beats' = beat_times
    /\ pc' = "cleaned twice"
    /\ UNCHANGED <<den, segVars, reconVars, fileVars, pipeVars>>

NextRemoval == RemoveOnce \/ RemoveAgain

SpecRemoval == InitRemoval /\ [][NextRemoval]_vars

----------------------------------------------------------------------------
(* Step 2d one iteration of its while loop at a time; prev_beats keeps the *)
(* beats the step started with                                            *)

InitScan ==
    /\ pc = "detected"
    /\ beat_times \in RemovalInputs
    /\ den = 1
    /\ prev_beats = <<>>
    /\ max_drift_ms = 2
    /\ segments = <<>>
    /\ ReconIdle
    /\ FileIdle
    /\ PipeIdle

\* if len(beat_times) >= 4: ... i = 1
EnterScan ==
    /\ pc = "detected"
    /\ Len(beat_times) >= 4
    /\ prev_beats' = beat_times
    /\ scan_index' = 1
    /\ pc' = "scan"
    /\ UNCHANGED <<beat_times, den, segVars, reconVars, fileVars, y,
                   first_beat_override, raw_beats, pre_snap_beats,
                   prepend_count, calibrated_offset, total_offset, offsets>>

\* fewer than 4 beats: the step is skipped
SkipScan ==
    /\ pc = "detected"
    /\ Len(beat_times) < 4
    /\ prev_beats' = beat_times
    /\ pc' = "cleaned"
    /\ UNCHANGED <<beat_times, den, segVars, reconVars, fileVars, pipeVars>>

\* one iteration of while i < len(beat_times) - 1; median_interval is that
\* of the beats the step started with
ScanStep ==
    /\ pc = "scan"
    /\ scan_index < Len(beat_times) - 1
    /\ IF IsFalseBeat(beat_times, scan_index, Median2(Diffs(prev_beats)))
       THEN /\ beat_times' = Delete(beat_times, scan_index)
            /\ scan_index' = scan_index
       ELSE /\ beat_times' = beat_times
            /\ scan_index' = scan_index + 1
    /\ UNCHANGED <<pc, den, prev_beats, segVars, reconVars, fileVars, y,
                   first_beat_override, raw_beats, pre_snap_beats,
                   prepend_count, calibrated_offset, total_offset, offsets>>

\* the loop condition fails
EndScan ==
    /\ pc = "scan"
    /\ ~(scan_index < Len(beat_times) - 1)
    /\ pc' = "cleaned"
    /\ UNCHANGED <<beatVars, segVars, reconVars, fileVars, pipeVars>>

NextScan == EnterScan \/ SkipScan \/ ScanStep \/ EndScan

SpecScan == InitScan /\ [][NextScan]_vars

----------------------------------------------------------------------------
(* reconstruct_serato_beats on its own *)

NonTerminal(p, n) == [position |-> Rat(p, 1), beats_until_next |-> n]

Terminal(p, b) == [position |-> Rat(p, 1), bpm |-> Rat(b, 1)]

\* marker positions, in ticks (10 s, 12 s, 13 s)
MarkerPositions == {1000, 1200, 1300}

\* beats_until_next values
MarkerCounts == {0, 1, 3, 4}

\* terminal tempos, in hundredths of a BPM (none, 120, 90.5)
MarkerBpms == {0, 12000, 9050}

NonTerminals == {NonTerminal(p, n) : p \in MarkerPositions, n \in MarkerCounts}

Terminals == {Terminal(p, b) : p \in MarkerPositions, b \in MarkerBpms}

\* the lists _parse_beatgrid_binary can return: non-terminal markers followed
\* by one terminal marker; and, for reconstruct_serato_beats alone, a list
\* whose last marker carries no bpm
MarkerLists ==
    {<<>>}
    \cup {<<t>> : t \in Terminals}
    \cup {<<a, t>> : a \in NonTerminals, t \in Terminals}
    \cup {<<a, b, t>> : a \in NonTerminals, b \in NonTerminals,
                        t \in {Terminal(1300, 12000)}}
    \cup {<<a, b>> : a \in NonTerminals, b \in {NonTerminal(1300, 4)}}

\* the largest max_beats tried (the default, and what main passes, is 500)
MaxBeatsCap == 30

MaxBeatsChoices == {1, 2, 3, 6, MaxBeatsCap}

\* durations in ticks; 0 stands for a duration that is not given (None or 0)
DurationChoices == {0, 900, 1400, 1600}

InitRecon ==
    /\ pc = "start"
    /\ beat_times = <<>>
    /\ den = 1
    /\ prev_beats = <<>>
    /\ max_drift_ms = 2
    /\ segments = <<>>
    /\ existing_markers \in MarkerLists
    /\ max_beats \in MaxBeatsChoices
    /\ duration \in DurationChoices
    /\ serato_beats = <<>>
    /\ FileIdle
    /\ PipeIdle

Reconstruct ==
    /\ pc = "start"
    /\ serato_beats' =
           reconstruct_serato_beats(existing_markers, max_beats, duration)
    /\ pc' = "done"
    /\ UNCHANGED <<beatVars, segVars, existing_markers, max_beats, duration,
                   fileVars, pipeVars>>

NextRecon == Reconstruct

SpecRecon == InitRecon /\ [][NextRecon]_vars

----------------------------------------------------------------------------
(* read_serato_beatgrid on its own: ID3v2 tags built from a well-formed    *)
(* Serato BeatGrid GEOB frame by cutting it short, changing one byte,      *)
(* re-encoding its strings and surrounding it with other frames            *)

\* 'a.mp3', 'a.MP3', 'a.flac'
Paths == {<<97>> \o DotMp3, <<97, 46, 77, 80, 51>>,
          <<97, 46, 102, 108, 97, 99>>}

\* struct.pack('>f', 10.0), ('>f', 12.0), ('>f', 120.0), ('>I', 4)
Packed10 == <<65, 32, 0, 0>>

Packed12 == <<65, 64, 0, 0>>

Packed120 == <<66, 240, 0, 0>>

Packed4 == <<0, 0, 0, 4>>

\* header, marker count, markers, footer
GridBlob(count, marker_bytes) == <<1, 0, 0, 0, 0, count>> \o marker_bytes \o <<0>>

GoodBlob == GridBlob(2, Packed10 \o Packed4 \o Packed12 \o Packed120)

BadBlobs ==
    {<<2, 0, 0, 0, 0, 1>> \o Packed10 \o Packed120 \o <<0>>,
     GridBlob(0, <<>>),
     GridBlob(0, Packed10 \o Packed120),
     GridBlob(2, Packed10 \o Packed120),
     GridBlob(1, <<65, 32, 0, 0, 66, 240, 0>>),
     <<1, 0, 0>>,
     <<>>}

\* str.encode('utf-16-le') of ASCII text
EncodeUtf16le(text) ==
    [i \in 1 .. (2 * Len(text)) |-> IF i % 2 = 1 THEN text[(i + 1) \div 2] ELSE 0]

\* encoding byte, MIME type, filename, description, binary data
GeobData(encoding, mime, name, desc, blob) ==
    LET term == IF encoding \in {1, 2} THEN <<0, 0>> ELSE <<0>>
    IN  <<encoding>> \o mime \o <<0>> \o name \o term \o desc \o term \o blob

GoodGeob == GeobData(0, <<97>>, <<>>, SeratoBeatGrid, GoodBlob)

Substitute(data, i, b) == [data EXCEPT ![i] = b]

\* the bytes written over one byte of the frame
SubstituteBytes == {0, 1, 127}

\* str.encode('utf-16-be') of ASCII text
EncodeUtf16be(text) ==
    [i \in 1 .. (2 * Len(text)) |-> IF i % 2 = 0 THEN text[i \div 2] ELSE 0]

\* text in the character set the encoding byte declares: UTF-16 with a byte
\* order mark for 1, UTF-16BE for 2
EncodeDeclared(encoding, text) ==
    IF encoding = 2 THEN EncodeUtf16be(text)
    ELSE <<255, 254>> \o EncodeUtf16le(text)

\* frames in a 2-byte character set: the filename empty or 'x', the
\* description 'Serato BeatGrid', each in the declared character set or in
\* UTF-16LE without a byte order mark, then a valid grid
TwoByteGeobsOf(enc) ==
    {GeobData(enc, <<97>>, name, desc, GoodBlob) :
         name \in {<<>>, EncodeDeclared(enc, <<120>>), EncodeUtf16le(<<120>>)},
         desc \in {EncodeDeclared(enc, SeratoBeatGrid),
                   EncodeUtf16le(SeratoBeatGrid)}}

TwoByteGeobs == TwoByteGeobsOf(1) \cup TwoByteGeobsOf(2)

GeobDatas ==
    {SubSeq(GoodGeob, 1, k) : k \in 0 .. Len(GoodGeob)}
    \cup {Substitute(GoodGeob, i, b) :
              i \in 1 .. Len(GoodGeob), b \in SubstituteBytes}
    \cup {GeobData(0, <<97>>, <<>>, SeratoBeatGrid, blob) : blob \in BadBlobs}
    \cup {GeobData(0, <<97>>, <<120>>, SeratoBeatGrid,
                   SeratoBeatGrid \o <<0>> \o blob) :
              blob \in BadBlobs \cup {GoodBlob}}
    \cup {GeobData(enc, <<97>>, name, desc, GoodBlob) :
              enc \in {1, 2, 3},
              name \in {<<>>, <<120, 0>>},
              desc \in {SeratoBeatGrid,
                        EncodeUtf16le(SeratoBeatGrid),
                        <<255, 254>> \o EncodeUtf16le(SeratoBeatGrid)}}
    \cup TwoByteGeobs

\* frame id, size (synchsafe in ID3v2.4), flags, data
Frame(id, size, data, version) ==
    id
    \o (IF version = 4
        THEN <<(size \div 2097152) % 128, (size \div 16384) % 128,
               (size \div 128) % 128, size % 128>>
        ELSE <<(size \div 16777216) % 256, (size \div 65536) % 256,
               (size \div 256) % 256, size % 256>>)
    \o <<0, 0>>
    \o data

\* a TIT2 frame
TextFrame(version) == Frame(<<84, 73, 84, 50>>, 2, <<0, 120>>, version)

Zeros(n) == [i \in 1 .. n |-> 0]

\* the frames and padding of a tag around one GEOB payload
TagBodies(data, version) ==
    LET geob == Frame(GEOB, Len(data), data, version)
        good == Frame(GEOB, Len(GoodGeob), GoodGeob, version)
    IN  {geob,
         TextFrame(version) \o geob \o Zeros(12),
         geob \o <<88, 88, 88>>,
         geob \o good,
         Frame(GEOB, Len(data) + 1, data, version),
         Frame(<<84, 73, 84, 50>>, 0, <<>>, version) \o geob}

\* 'ID3', version, revision, flags, synchsafe size
TagHeader(version, size) ==
    ID3 \o <<version, 0, 0>>
    \o <<(size \div 2097152) % 128, (size \div 16384) % 128,
         (size \div 128) % 128, size % 128>>

TagVersions == {3, 4}

TagContents ==
    UNION {{TagHeader(v, Len(body)) \o body : body \in TagBodies(data, v)} :
               v \in TagVersions, data \in GeobDatas}

GoodTag == TagHeader(3, Len(GoodGeob) + 10) \o Frame(GEOB, Len(GoodGeob), GoodGeob, 3)

\* tags cut short, a tag followed by audio, and files with no tag
OtherContents ==
    {SubSeq(GoodTag, 1, k) : k \in 0 .. (Len(GoodTag) - 1)}
    \cup {GoodTag \o <<255, 251, 144, 0>>}
    \cup {<<255, 251, 144, 0>> \o GoodTag}
    \cup {Substitute(GoodTag, i, b) : i \in 1 .. 20, b \in SubstituteBytes}

TagFiles ==
    {[path |-> <<97>> \o DotMp3, readable |-> TRUE, content |-> c] :
         c \in TagContents \cup OtherContents}
    \cup {[path |-> p, readable |-> r, content |-> GoodTag] :
              p \in Paths, r \in BOOLEAN}

InitRead ==
    /\ pc = "start"
    /\ beat_times = <<>>
    /\ den = 1
    /\ prev_beats = <<>>
    /\ max_drift_ms = 2
    /\ segments = <<>>
    /\ ReconIdle
    /\ file \in TagFiles
    /\ grid = None
    /\ encoder_delay = 0
    /\ marker_blob = <<>>
    /\ PipeIdle

ReadGrid ==
    /\ pc = "start"
    /\ grid' = read_serato_beatgrid(file)
    /\ pc' = "read"
    /\ UNCHANGED <<beatVars, segVars, reconVars, file, encoder_delay, marker_blob, pipeVars>>

NextRead == ReadGrid

SpecRead == InitRead /\ [][NextRead]_vars

----------------------------------------------------------------------------
(* get_mp3_encoder_delay on its own: files built around one MPEG frame     *)
(* that carries a Xing/Info tag with a LAME extension                      *)

\* 'LAME3.100'
Lame3100 == <<76, 65, 77, 69, 51, 46, 49, 48, 48>>

\* version strings: LAME3.100, all zero, one with a control byte, one with DEL
VersionStrings ==
    {Lame3100, Zeros(9), <<76, 65, 77, 69, 0, 31, 0, 0, 0>>,
     <<76, 65, 77, 69, 51, 46, 57, 57, 127>>}

\* second header bytes: MPEG1, MPEG2 and MPEG2.5 layer III, a reserved
\* version, a reserved layer
HeaderBytes == {251, 243, 227, 235, 249}

\* fourth header bytes: stereo, mono
ChannelBytes == {0, 192}

\* Xing flag bytes
FlagBytes == {0, 4, 15}

\* 'Xing', 'Info' and a tag that is neither
TagNames == {Xing, Info, <<88, 105, 110, 102>>}

\* encoder delays written in the LAME field
Delays == {0, 1, 1234, 4095}

\* the zero bytes that follow the frame
TailLength == 100

\* frame header, side information, tag, flags, fields, version string, 12
\* bytes, 12-bit delay and 12-bit padding, then zeros
LameFrame(h1, h3, side, tag, flags, version, delay) ==
    <<255, h1, 144, h3>> \o Zeros(side) \o tag \o <<0, 0, 0, flags>>
    \o Zeros(XingFieldsSize(flags)) \o version \o Zeros(12)
    \o <<delay \div 16, (delay % 16) * 16 + 5, 67>> \o Zeros(TailLength)

PlainFrames ==
    {LameFrame(h1, h3, SideInfoSize(<<255, h1, 144, h3>>), tag, flags, v, d) :
         h1 \in HeaderBytes, h3 \in ChannelBytes, tag \in TagNames,
         flags \in FlagBytes, v \in VersionStrings, d \in Delays}

\* MPEG1 stereo with every Xing field, MPEG2 mono with none, the tag not
\* where the header says
SomeFrames ==
    {LameFrame(251, 0, 32, Xing, 15, Lame3100, 1234),
     LameFrame(243, 192, 9, Info, 0, Lame3100, 576),
     LameFrame(251, 0, 17, Xing, 0, Lame3100, 1234)}

\* what may come before the frame: other bytes, a 0xFF that starts no frame,
\* a 0xFF just before it, ID3v2 tags short and long, declared right or not
Preambles ==
    {Zeros(1), Zeros(50), <<255, 235>>, <<255, 0, 255>>, <<255>>,
     Zeros(SearchSpan - 100), Zeros(SearchSpan),
     TagHeader(3, 0), TagHeader(3, 20) \o Zeros(20),
     TagHeader(3, 5000),
     TagHeader(3, InitialRead) \o Zeros(InitialRead),
     TagHeader(3, 12000) \o Zeros(12000 + ReRead + 260),
     TagHeader(3, 12000) \o Zeros(12000 + ReRead + 270),
     TagHeader(3, 12000) \o Zeros(12000 + ReRead + 100)}

DelayContents ==
    PlainFrames
    \cup {p \o fr : p \in Preambles, fr \in SomeFrames}
    \cup {TagHeader(3, 20) \o Zeros(20) \o fr \o Zeros(ReRead) : fr \in SomeFrames}
    \cup {SubSeq(Zeros(100) \o fr, 1, Min(k, Len(fr))) :
              fr \in SomeFrames, k \in 120 .. 290}
    \cup {Zeros(k) : k \in {0, 127, 128}}

DelayFiles ==
    {[path |-> <<97>> \o DotMp3, readable |-> TRUE, content |-> c] :
         c \in DelayContents}
    \cup {[path |-> p, readable |-> r, content |-> fr] :
              p \in Paths, r \in BOOLEAN, fr \in SomeFrames}

InitDelay ==
    /\ pc = "start"
    /\ beat_times = <<>>
    /\ den = 1
    /\ prev_beats = <<>>
    /\ max_drift_ms = 2
    /\ segments = <<>>
    /\ ReconIdle
    /\ file \in DelayFiles
    /\ grid = None
    /\ encoder_delay = 0
    /\ marker_blob = <<>>
    /\ PipeIdle

ReadDelay ==
    /\ pc = "start"
    /\ encoder_delay' = get_mp3_encoder_delay(file)
    /\ pc' = "delay read"
    /\ UNCHANGED <<beatVars, segVars, reconVars, file, grid, marker_blob, pipeVars>>

NextDelay == ReadDelay

SpecDelay == InitDelay /\ [][NextDelay]_vars

----------------------------------------------------------------------------
(* __main__.py: main() from beat detection to segment_tempo, one action    *)
(* per stage                                                               *)

\* reconstruct_serato_beats' max_beats in step 2f
CalibrationMaxBeats == 500

\* the audio lasts 8 s
AudioBlocks == 80

\* amplitudes: a loud section, and intros that are silent, quiet (a sixth
\* of the loud level) or half-loud (a third of it)
Loud == 6

IntroLevels == {0, 1, 2}

\* the intro lasts for the first intro_blocks blocks
Audio(intro_blocks, intro_level) ==
    [len |-> AudioBlocks * BlockSamples,
     levels |-> [i \in 1 .. AudioBlocks |->
                    IF i <= intro_blocks THEN intro_level ELSE Loud]]

\* loud audio with a half-loud block every 0.5 s, from 0.1 s on: the level
\* rises at 0.2 s, 0.7 s, 1.2 s, ...
PulsedAudio ==
    [len |-> AudioBlocks * BlockSamples,
     levels |-> [i \in 1 .. AudioBlocks |-> IF i % 5 = 2 THEN 3 ELSE Loud]]

Audios ==
    {Audio(0, 0)} \cup {Audio(b, l) : b \in {9, 14}, l \in IntroLevels}

RegularBeats(first, interval, n) ==
    [i \in 1 .. n |-> first + (i - 1) * interval]

\* a beat detected between two others
InsertAfter(bt, i, b) == SubSeq(bt, 1, i) \o <<b>> \o SubSeq(bt, i + 1, Len(bt))

\* one beat detected early or late
ShiftOne(bt, i, delta) == [bt EXCEPT ![i] = bt[i] + delta]

RegularTracks ==
    {RegularBeats(f, iv, n) :
         f \in {7, 50, 103, 150}, iv \in {50, 55}, n \in {1, 3, 5, 8, 10, 12}}

\* tracks with a false detection, a missed beat, an early or late beat, or a
\* change of tempo
IrregularTracks ==
    UNION {{InsertAfter(bt, 4, bt[4] + 25),
            InsertAfter(bt, 4, bt[4] + 15),
            InsertAfter(bt, 1, bt[1] + 25),
            Delete(bt, 4),
            ShiftOne(bt, 1, 2),
            ShiftOne(bt, 1, -2),
            ShiftOne(bt, 3, 5),
            ShiftOne(bt, Len(bt), 2),
            bt \o RegularBeats(bt[Len(bt)] + 40, 40, 4)} :
               bt \in {RegularBeats(f, 50, n) : f \in {50, 103}, n \in {8, 10}}}

\* longest track: more beats than calibration reads
LongTrackBeats == 104

\* a track of intervals of 60 ms and 80 ms in turn
LongTrack == [i \in 1 .. LongTrackBeats |-> 5 + 7 * (i - 1) - (i % 2)]

\* detect_beats' beat times after lines 60-62: no beat is one beat at 0.0
DetectedBeats == {<<0>>} \cup RegularTracks \cup IrregularTracks

\* --first-beat positions, in ticks
Overrides == {0, 100, 103, 130, 228, 790}

\* struct.pack('>f', x) for 0.53125, 0.5625, 0.4921875 and 0.484375: a
\* Serato grid 31.25 ms and 62.5 ms after, 7.8125 ms and 15.625 ms before a
\* beat at 0.5 s
MarkerPositionBytes ==
    {<<63, 8, 0, 0>>, <<63, 16, 0, 0>>, <<62, 252, 0, 0>>, <<62, 248, 0, 0>>}

\* struct.pack('>f', 4.03125): a grid that starts 4 s into the track, so
\* that only the beats from 4.0 s on have a reconstructed beat near them
LateMarkerBytes == <<64, 129, 0, 0>>

\* an MP3 file with a single-marker Serato BeatGrid at 120 BPM and a LAME
\* header
SeratoFile(position_bytes) ==
    LET data == GeobData(0, <<97>>, <<>>, SeratoBeatGrid,
                         GridBlob(1, position_bytes \o Packed120))
    IN  TagHeader(3, Len(data) + 10) \o Frame(GEOB, Len(data), data, 3)
        \o LameFrame(251, 0, 32, Xing, 15, Lame3100, 1234)

NoFile == [path |-> <<97, 46, 102, 108, 97, 99>>, readable |-> TRUE,
           content |-> <<>>]

Mp3File(content) ==
    [path |-> <<97>> \o DotMp3, readable |-> TRUE, content |-> content]

AudioFiles ==
    {NoFile,
     Mp3File(LameFrame(251, 0, 32, Xing, 15, Lame3100, 1234)),
     Mp3File(LameFrame(251, 0, 32, Xing, 15, Lame3100, 1)),
     Mp3File(GoodTag \o LameFrame(251, 0, 32, Xing, 15, Lame3100, 1234))}
    \cup {Mp3File(SeratoFile(p)) : p \in MarkerPositionBytes}

PipeInput(bt, audio, override, f) ==
    [beats |-> bt, y |-> audio, first_beat_override |-> override, file |-> f]

\* every track over every audio; tracks 65 ms and 45 ms ahead of a grid whose
\* marker is at 0.125 s; tracks that start 3.5 s before the grid's marker;
\* tracks whose beats lie 10 ms and 20 ms before a rise of the level; a
\* track of more than 100 beats over a grid; a track with a last beat
\* 150 ms after the one before; the override over a few tracks; the files over the
\* tracks long enough to calibrate against
PipeInputs ==
    {PipeInput(bt, a, NoOverride, NoFile) : bt \in DetectedBeats, a \in Audios}
    \cup {PipeInput(RegularBeats(first, 50, n), Audio(0, 0), NoOverride,
                    Mp3File(SeratoFile(<<62, 0, 0, 0>>))) :
              first \in {6, 8}, n \in {9, 10, 12}}
    \cup {PipeInput(RegularBeats(50, 50, n), Audio(0, 0), NoOverride,
                    Mp3File(SeratoFile(LateMarkerBytes))) : n \in {9, 12}}
    \cup {PipeInput(RegularBeats(first, 50, n), PulsedAudio, NoOverride, f) :
              first \in {18, 19}, n \in {3, 10},
              f \in {NoFile,
                     Mp3File(LameFrame(251, 0, 32, Xing, 15, Lame3100, 1234))}}
    \cup {PipeInput(LongTrack, Audio(0, 0), NoOverride,
                    Mp3File(SeratoFile(<<63, 8, 0, 0>>)))}
    \cup {PipeInput(RegularBeats(50, 50, 10) \o <<515>>, Audio(0, 0),
                    NoOverride, NoFile)}
    \cup {PipeInput(bt, Audio(0, 0), x, NoFile) :
              bt \in {<<0>>} \cup {RegularBeats(f, 50, n) : f \in {50, 103}, n \in {3, 10}},
              x \in Overrides}
    \cup {PipeInput(bt, a, NoOverride, f) :
              bt \in {RegularBeats(first, 50, n) : first \in {7, 50, 103}, n \in {3, 9, 10, 12}}
                     \cup {ShiftOne(RegularBeats(50, 50, 10), 3, 5)},
              a \in {Audio(0, 0), Audio(9, 1)},
              f \in AudioFiles}

InitPipe ==
    /\ pc = "detected"
    /\ \E input \in PipeInputs :
          /\ beat_times = input.beats
          /\ raw_beats = input.beats
          /\ y = input.y
          /\ first_beat_override = input.first_beat_override
          /\ file = input.file
    /\ den = 1
    /\ prev_beats = <<>>
    /\ max_drift_ms = 2
    /\ segments = <<>>
    /\ existing_markers = <<>>
    /\ max_beats = CalibrationMaxBeats
    /\ duration = (100 * y.len) \div sr
    /\ serato_beats = <<>>
    /\ grid = None
    /\ encoder_delay = 0
    /\ marker_blob = <<>>
    /\ pre_snap_beats = <<>>
    /\ prepend_count = 0
    /\ calibrated_offset = NoOffset
    /\ total_offset = Rat(0, 1)
    /\ offsets = <<>>
    /\ scan_index = 0

\* step 2a; steps 2b and 2c are skipped
FirstBeatOverride ==
    /\ pc = "detected"
    /\ first_beat_override # NoOverride
    /\ beat_times' = OverrideFirstBeat(beat_times, den, first_beat_override * den)
    /\ pc' = "extrapolated"
    /\ UNCHANGED <<den, prev_beats, segVars, reconVars, fileVars, y,
                   first_beat_override, raw_beats, pre_snap_beats,
                   prepend_count, calibrated_offset, total_offset, offsets, scan_index>>

\* step 2b
TrimWeak ==
    /\ pc = "detected"
    /\ first_beat_override = NoOverride
    /\ beat_times' = TrimWeakLeading(beat_times, den, y)
    /\ pc' = "trimmed"
    /\ UNCHANGED <<den, prev_beats, segVars, reconVars, fileVars, y,
                   first_beat_override, raw_beats, pre_snap_beats,
                   prepend_count, calibrated_offset, total_offset, offsets, scan_index>>

\* step 2c; den doubles when a beat falls on half a unit
Extrapolate ==
    /\ pc = "trimmed"
    /\ LET r == ExtrapolateLeading(beat_times, den, y)
           rs == Rats(r.beats, 2 * den)
       IN  /\ den' = CommonDen(rs)
           /\ beat_times' = Numerators(rs, CommonDen(rs))
           /\ prepend_count' = r.count
    /\ pc' = "extrapolated"
    /\ UNCHANGED <<prev_beats, segVars, reconVars, fileVars, y,
                   first_beat_override, raw_beats, pre_snap_beats,
                   calibrated_offset, total_offset, offsets, scan_index>>

\* step 2d, and the copy kept for calibration
RemoveFalseBeats ==
    /\ pc = "extrapolated"
    /\ prev_beats' = beat_times
    /\ beat_times' = FalseBeatRemoval(beat_times)
    /\ pre_snap_beats' = Rats(FalseBeatRemoval(beat_times), den)
    /\ pc' = "cleaned"
    /\ UNCHANGED <<den, segVars, reconVars, fileVars, y, first_beat_override,
                   raw_beats, prepend_count, calibrated_offset, total_offset, offsets, scan_index>>

\* step 2e
SnapGrid ==
    /\ pc = "cleaned"
    /\ LET rs == SnapToGrid(beat_times, den)
       IN  /\ den' = CommonDen(rs)
           /\ beat_times' = Numerators(rs, CommonDen(rs))
    /\ pc' = "snapped"
    /\ UNCHANGED <<prev_beats, segVars, reconVars, fileVars, y,
                   first_beat_override, raw_beats, pre_snap_beats,
                   prepend_count, calibrated_offset, total_offset, offsets, scan_index>>

\* existing_markers, with positions in ticks and bpm in hundredths
ReadMarkers(read) ==
    IF read.kind = "markers"
    THEN [i \in 1 .. Len(read.markers) |-> MarkerInTicks(read.markers[i])]
    ELSE <<>>

\* lines 418-443: codec delay plus onset-to-peak
ComputedOffset(f, bt, audio) ==
    RatAdd(CodecDelay(get_mp3_encoder_delay(f)), OnsetToPeak(bt, audio))

\* a step 2f that ignores the calibration and always computes the offset
TotalOffsetComputedOnly(calibrated, f, bt, audio) ==
    ComputedOffset(f, bt, audio)

\* total_offset: the calibrated offset, or codec delay plus onset-to-peak
TotalOffset(calibrated, f, bt, audio) ==
    IF calibrated.kind = "value" THEN calibrated.value
    ELSE ComputedOffset(f, bt, audio)

\* step 2f: calibrate against the file's Serato grid, or compute the offset
\* from the codec delay and the onset-to-peak time; then segment_tempo is
\* entered.  A reader that raised would end main() here.
ApplyOffset ==
    /\ pc = "snapped"
    /\ read_serato_beatgrid(file).kind # "raised"
    /\ grid' = read_serato_beatgrid(file)
    /\ existing_markers' = ReadMarkers(grid')
    /\ serato_beats' = reconstruct_serato_beats(existing_markers', max_beats,
                                                duration)
    /\ offsets' = Collected(existing_markers', serato_beats', pre_snap_beats)
    /\ calibrated_offset' = AcceptMedian(offsets')
    /\ encoder_delay' = IF calibrated_offset'.kind = "value" THEN encoder_delay
                        ELSE get_mp3_encoder_delay(file)
    /\ total_offset' = TotalOffset(calibrated_offset', file,
                                   Rats(beat_times, den), y)
    /\ den' = CommonDen(Shift(Rats(beat_times, den), total_offset'))
    /\ beat_times' = Numerators(Shift(Rats(beat_times, den), total_offset'), den')
    /\ pc' = "start"
    /\ UNCHANGED <<prev_beats, segVars, max_beats, duration, file, marker_blob, y,
                   first_beat_override, raw_beats, pre_snap_beats,
                   prepend_count, scan_index>>

NextPipe ==
    \/ FirstBeatOverride
    \/ TrimWeak
    \/ Extrapolate
    \/ RemoveFalseBeats
    \/ SnapGrid
    \/ ApplyOffset
    \/ SegDegenerate
    \/ SegBuild
    \/ SegBridge
    \/ SegConsolidate

SpecPipe == InitPipe /\ [][NextPipe]_vars

----------------------------------------------------------------------------
(* Properties of segment_tempo *)

Range(f) == {f[i] : i \in DOMAIN f}

\* every interior beat of seg lies within tol ticks of the grid pinned at the
\* segment's two end beats
WithinTolerance(seg, bt, tol) ==
    \A k \in 1 .. (seg.end_beat_index - seg.start_beat_index - 1) :
        ScaledDrift(bt, seg.start_beat_index, seg.end_beat_index, k)
            <= tol * (seg.end_beat_index - seg.start_beat_index)

\* the segments tile the beat indices 0 .. n-1
Tiles(segs, n) ==
    /\ segs # <<>>
    /\ segs[1].start_beat_index = 0
    /\ segs[Len(segs)].end_beat_index = n - 1
    /\ \A i \in 1 .. Len(segs) :
          segs[i].start_beat_index < segs[i].end_beat_index
    /\ \A i \in 1 .. (Len(segs) - 1) :
          segs[i].end_beat_index = segs[i + 1].start_beat_index

\* C1: for a beat sequence of length n >= 2 the segment list after building,
\* after bridging and after consolidation (the returned list) is contiguous,
\* non-overlapping and covers the input: it starts at index 0, ends at n-1,
\* every segment has start < end and each end is the next segment's start.
C1_SegmentsTile ==
    (pc \in {"built", "bridged", "done"} /\ Len(beat_times) >= 2)
        => Tiles(segments, Len(beat_times))

\* C1 witness: a returned list of several segments that bridging changed
C1_Witness ==
    /\ pc = "done"
    /\ Len(segments) >= 2
    /\ LET built == _build_segments(beat_times, max_drift_ms * den)
       IN  /\ Len(segments) < Len(built)
           /\ \E i \in 1 .. Len(segments) : segments[i] \notin Range(built)

\* C2: the list returned by segment_tempo never holds more than 32 segments.
C2_AtMost32Segments ==
    pc = "done" => Len(segments) <= 32

\* C3 as stated: every interior beat of every non-last returned segment lies
\* within the tolerance of the run.
C3_ReturnedWithinTolerance ==
    pc = "done" =>
        \A i \in 1 .. (Len(segments) - 1) :
            WithinTolerance(segments[i], beat_times, max_drift_ms * den)

\* C3 amended: every segment of the initial building, the last one included,
\* has all its interior beats within the tolerance of the run, and so has
\* every segment of the later lists that bridging and consolidation left as
\* built.
C3_BuiltWithinTolerance ==
    pc \in {"built", "bridged", "done"} =>
        LET built == Range(_build_segments(beat_times, max_drift_ms * den))
        IN  \A i \in 1 .. Len(segments) :
                segments[i] \in built
                    => WithinTolerance(segments[i], beat_times,
                                       max_drift_ms * den)

\* C3 witness: a returned list that bridging changed and that still holds a
\* non-last segment, with interior beats, exactly as built
C3_Witness ==
    /\ pc = "done"
    /\ LET built == _build_segments(beat_times, max_drift_ms * den)
       IN  /\ segments # built
           /\ \E i \in 1 .. (Len(segments) - 1) :
                 /\ segments[i] \in Range(built)
                 /\ segments[i].beat_count >= 2

\* C4: every returned segment has beat_count = end_beat_index -
\* start_beat_index, for every input, the empty and the single-beat one too.
C4_BeatCountIsIndexSpan ==
    pc = "done" =>
        \A i \in 1 .. Len(segments) :
            segments[i].beat_count
                = segments[i].end_beat_index - segments[i].start_beat_index

----------------------------------------------------------------------------
(* Properties of false beat removal *)

\* C5: removal applied to [0, 1, 2, 3, 3.02, 4, 5] s yields [0, 1, 2, 3, 4, 5]:
\* the beat at 3.02 is removed and the beat at 3 is kept.
C5_DoubleHitExample ==
    (pc = "cleaned" /\ prev_beats = <<0, 100, 200, 300, 302, 400, 500>>)
        => beat_times = <<0, 100, 200, 300, 400, 500>>

\* C6: a second removal pass over the output of the first (with the median
\* interval recomputed from that output) removes nothing.
C6_RemovalIdempotent ==
    pc = "cleaned twice" => beat_times = prev_beats

----------------------------------------------------------------------------
(* Properties of reconstruct_serato_beats *)

\* more beats than any terminal extrapolation of MarkerLists can hold
MaxTerminalBeats == 40

\* the beats of marker i and of the span that follows it, with no cap: the
\* marker position, then the interior beats position + k * (next - position)
\* / N for k = 1 .. N-1 (non-terminal, N > 0), or the beats position + j * 60
\* / bpm that lie strictly below bound (terminal, bpm > 0)
ExpectedBlock(markers, i, bound) ==
    LET pos == markers[i].position
    IN  IF i < Len(markers)
        THEN LET n == GetBeatsUntilNext(markers[i])
                 nxt == markers[i + 1].position
             IN  <<pos>>
                 \o [k \in 1 .. (n - 1) |-> Interpolate(pos, nxt, n, k)]
        ELSE LET bpm == GetBpm(markers[i])
             IN  IF bpm.n <= 0 THEN <<pos>>
                 ELSE LET below ==
                              {j \in 1 .. MaxTerminalBeats :
                                 RatLess(RatAddTimes(pos, j, BeatInterval(bpm)),
                                         bound)}
                      IN  <<pos>>
                          \o [j \in 1 .. Cardinality(below) |->
                                 RatAddTimes(pos, j, BeatInterval(bpm))]

RECURSIVE ExpectedFrom(_, _, _)
ExpectedFrom(markers, i, bound) ==
    IF i > Len(markers) THEN <<>>
    ELSE ExpectedBlock(markers, i, bound) \o ExpectedFrom(markers, i + 1, bound)

\* the bound of the terminal extrapolation: the duration when it is given
ExpectedBound ==
    IF duration # 0 THEN Rat(duration, 1)
    ELSE LET last == existing_markers[Len(existing_markers)]
         IN  IF GetBpm(last).n <= 0 THEN last.position
             ELSE RatAddTimes(last.position, max_beats,
                              BeatInterval(GetBpm(last)))

ExpectedBeats == ExpectedFrom(existing_markers, 1, ExpectedBound)

IsPrefix(a, b) == Len(a) <= Len(b) /\ a = SubSeq(b, 1, Len(a))

\* C8 as stated: with a duration bound given, the output is every marker
\* position followed by its interior beats, and the terminal position followed
\* by all the beats 60/bpm apart below the duration bound.
C8_EmitsEveryBeat ==
    (pc = "done" /\ duration # 0) => serato_beats = ExpectedBeats

\* C8 amended: the output is a prefix of that list, and the whole list when
\* the list holds fewer than max_beats beats.
C8_EmitsUpToCap ==
    pc = "done" =>
        /\ IsPrefix(serato_beats, ExpectedBeats)
        /\ Len(ExpectedBeats) < max_beats => serato_beats = ExpectedBeats

\* C8 witness: the example of the claim, markers at 10 s (4 beats to the next)
\* and 12 s (120 BPM), gives 10, 10.5, 11, 11.5, 12, 12.5, ... below 14 s
C8_Witness ==
    /\ pc = "done"
    /\ existing_markers = <<NonTerminal(1000, 4), Terminal(1200, 12000)>>
    /\ duration = 1400
    /\ serato_beats = [i \in 1 .. 8 |-> Rat(1000 + 50 * (i - 1), 1)]

----------------------------------------------------------------------------
(* Properties of read_serato_beatgrid *)

\* the file starts with a whole ID3v2 block
HasId3Block(c) ==
    /\ Len(c) >= 10
    /\ SubSeq(c, 1, 3) = ID3
    /\ Len(c) - 10 >= Synchsafe(SubSeq(c, 7, 10))

DeclaredSize(c, at) ==
    IF c[4] = 4 THEN Synchsafe(SubSeq(c, at + 5, at + 8))
    ELSE BigEndian(SubSeq(c, at + 5, at + 8))

RECURSIVE BadFrameFrom(_, _)
\* following the declared frame sizes from file offset at, a frame whose
\* size is zero or runs past the tag comes before any GEOB frame
BadFrameFrom(c, at) ==
    LET tag_end == 10 + Synchsafe(SubSeq(c, 7, 10))
    IN  /\ at + 10 < tag_end
        /\ \/ DeclaredSize(c, at) = 0
           \/ at + 10 + DeclaredSize(c, at) > tag_end
           \/ /\ SubSeq(c, at + 1, at + 4) # GEOB
              /\ BadFrameFrom(c, at + 10 + DeclaredSize(c, at))

\* the offsets just after each 'Serato BeatGrid\0' in the file
AfterDescription(c) ==
    {i \in (Len(SeratoBeatGrid) + 1) .. Len(c) :
         SubSeq(c, i - Len(SeratoBeatGrid), i) = SeratoBeatGrid \o <<0>>}

WrongHeader(c, i) == Len(c) < i + 2 \/ c[i + 1] # 1 \/ c[i + 2] # 0

ZeroCount(c, i) == Len(c) >= i + 6 /\ BigEndian(SubSeq(c, i + 3, i + 6)) = 0

TooFewMarkerBytes(c, i) ==
    \/ Len(c) < i + 6
    \/ (Len(c) - (i + 6)) \div 8 < BigEndian(SubSeq(c, i + 3, i + 6))

\* the cases in which C9 says None is returned
Malformed(f) ==
    \/ ~f.readable
    \/ ~HasId3Block(f.content)
    \/ BadFrameFrom(f.content, 10)
    \/ AfterDescription(f.content) = {}
    \/ \A i \in AfterDescription(f.content) :
           \/ WrongHeader(f.content, i)
           \/ ZeroCount(f.content, i)
           \/ TooFewMarkerBytes(f.content, i)

\* C9: read_serato_beatgrid never raises, whatever the file holds, and
\* returns None when the ID3v2 block is missing or truncated, a frame's
\* declared size is zero or runs past the tag, no GEOB frame is described as
\* 'Serato BeatGrid', or the binary data has a wrong header, a zero marker
\* count or fewer marker bytes than the count requires.
C9_NeverRaises ==
    pc = "read" =>
        /\ grid # Raised
        /\ Malformed(file) => grid = None

\* C9 witness: a whole tag whose 'Serato BeatGrid' frame declares no markers
C9_Witness ==
    /\ pc = "read"
    /\ file.readable
    /\ HasId3Block(file.content)
    /\ ~BadFrameFrom(file.content, 10)
    /\ \E i \in AfterDescription(file.content) :
           ~WrongHeader(file.content, i) /\ ZeroCount(file.content, i)
    /\ grid = None

----------------------------------------------------------------------------
(* Properties of get_mp3_encoder_delay *)

IsMp3Path(path) == EndsWith(Lower(path), DotMp3)

HasId3(c) == Len(c) >= 3 /\ SubSeq(c, 1, 3) = ID3

\* the file offset at which the audio is looked for: after the ID3v2 tag
AudioStart(c) == IF HasId3(c) THEN 10 + Synchsafe(SubSeq(c, 7, 10)) ELSE 0

\* the file offset at which the bytes looked at end: the first 16384 bytes,
\* or 4096 bytes from the end of an ID3v2 tag that leaves fewer than that
ExaminedEnd(c) ==
    IF HasId3(c) /\ AudioStart(c) + ReRead > Min(Len(c), InitialRead)
    THEN Max(AudioStart(c), Min(Len(c), AudioStart(c) + ReRead))
    ELSE Min(Len(c), InitialRead)

\* file offsets of a frame sync: 0xFF, then three set bits, a version that is
\* not 01 and a layer that is not 00
SyncOffsets(c) ==
    {s \in AudioStart(c) ..
           (Min(ExaminedEnd(c) - 4, AudioStart(c) + SearchSpan) - 1) :
         /\ c[s + 1] = 255
         /\ c[s + 2] >= 224
         /\ (c[s + 2] \div 8) % 4 # 1
         /\ (c[s + 2] \div 2) % 4 # 0}

\* side information bytes of the frame at s: 32, 17 or 9
SideBytes(c, s) ==
    LET mpeg1 == (c[s + 2] \div 8) % 4 = 3
        mono == c[s + 4] >= 192
    IN  IF mpeg1 /\ ~mono THEN 32
        ELSE IF mpeg1 \/ ~mono THEN 17
        ELSE 9

\* the file offset of the version string of the Xing/Info tag of the frame
\* at s
VersionOffset(c, s) ==
    LET flags == c[s + 4 + SideBytes(c, s) + 8]
    IN  s + 4 + SideBytes(c, s) + 8
        + 4 * (flags % 2) + 4 * ((flags \div 2) % 2)
        + 100 * ((flags \div 4) % 2) + 4 * ((flags \div 8) % 2)

\* every parsing step succeeds on the frame at s: a whole Xing or Info tag
\* with an ASCII version string and the delay field within the bytes examined
TagParses(c, s) ==
    LET x == s + 4 + SideBytes(c, s)
    IN  /\ x + 8 <= ExaminedEnd(c)
        /\ SubSeq(c, x + 1, x + 4) \in {Xing, Info}
        /\ VersionOffset(c, s) + 24 <= ExaminedEnd(c)
        /\ \A i \in 1 .. 9 :
               LET b == c[VersionOffset(c, s) + i]
               IN  b = 0 \/ (32 <= b /\ b < 127)

\* the 12 bits at offset 21 from the version string
LameDelay(c, s) ==
    c[VersionOffset(c, s) + 22] * 16 + (c[VersionOffset(c, s) + 23] \div 16)

\* the value C10 gives for an .mp3 path
ExpectedDelay(f) ==
    IF ~f.readable \/ Len(f.content) < MinData THEN DefaultDelay
    ELSE IF SyncOffsets(f.content) = {} THEN DefaultDelay
    ELSE LET s == MinOf(SyncOffsets(f.content))
         IN  IF /\ TagParses(f.content, s)
                /\ 0 < LameDelay(f.content, s)
                /\ LameDelay(f.content, s) < 5000
             THEN LameDelay(f.content, s)
             ELSE DefaultDelay

\* C10: get_mp3_encoder_delay never raises; it returns 0 for a path that does
\* not end in .mp3, the 12-bit delay of the LAME field when every parsing step
\* succeeds and 0 < delay < 5000, and 576 in every other case.
C10_DelayDetermined ==
    pc = "delay read" =>
        /\ encoder_delay # RaisedDelay
        /\ encoder_delay = IF IsMp3Path(file.path) THEN ExpectedDelay(file)
                           ELSE 0

\* C10 witness: a delay of 1234 read from a frame that follows an ID3v2 tag
C10_Witness ==
    /\ pc = "delay read"
    /\ HasId3(file.content)
    /\ encoder_delay = 1234

----------------------------------------------------------------------------
(* Properties of main()'s beat pipeline *)

StrictlyIncreasing(bt) == \A i \in 1 .. (Len(bt) - 1) : bt[i] < bt[i + 1]

RECURSIVE MatchedUpTo(_, _, _, _, _)
\* the index in b of a[hi] when a[lo .. hi] is matched entry by entry to the
\* earliest equal entries of b after index p; Len(b) + 1 when one has none
MatchedUpTo(a, b, lo, hi, p) ==
    IF lo = hi
    THEN LET found == {q \in (p + 1) .. Len(b) : b[q] = a[lo]}
         IN  IF found = {} THEN Len(b) + 1
             ELSE CHOOSE q \in found : \A z \in found : q <= z
    ELSE LET mid == MatchedUpTo(a, b, lo, (lo + hi) \div 2, p)
         IN  IF mid > Len(b) THEN mid
             ELSE MatchedUpTo(a, b, (lo + hi) \div 2 + 1, hi, mid)

\* a is b with some entries left out, the others in their order in b
IsSubsequence(a, b) ==
    \/ a = <<>>
    \/ MatchedUpTo(a, b, 1, Len(a), 0) <= Len(b)

\* raw_beats in the units of beat_times
RawInUnits == [i \in 1 .. Len(raw_beats) |-> raw_beats[i] * den]

\* beat_times is k beats followed by raw beats in their original order
RetainedAfter(k) ==
    /\ k <= Len(beat_times)
    /\ IsSubsequence(SubSeq(beat_times, k + 1, Len(beat_times)), RawInUnits)

\* the states after steps 2a/2b, 2c and 2d
CleaningStages == {"trimmed", "extrapolated", "cleaned"}

\* step 2a found no detected beat within 50 ms of the override position
OverrideInserted ==
    /\ first_beat_override # NoOverride
    /\ \A i \in 1 .. Len(raw_beats) : Abs(raw_beats[i] - first_beat_override) > 5

\* C7 as stated: from a strictly increasing raw beat sequence the beats are
\* strictly increasing after every stage, and through the cleaning stages
\* they are retained raw beats in their original order, preceded only by
\* beats that step 2c extrapolated
C7_PrecededOnlyByExtrapolated ==
    StrictlyIncreasing(raw_beats) =>
        /\ StrictlyIncreasing(beat_times)
        /\ pc \in CleaningStages =>
              \E k \in 0 .. prepend_count : RetainedAfter(k)

\* C7, amended: from a strictly increasing raw beat sequence the beats are
\* strictly increasing after every stage, and through the cleaning stages
\* they are retained raw beats in their original order, preceded only by
\* beats that step 2c extrapolated or, when step 2a found no detected beat
\* within 50 ms of the override, by the override position itself
C7_PrecededByExtrapolatedOrOverride ==
    StrictlyIncreasing(raw_beats) =>
        /\ StrictlyIncreasing(beat_times)
        /\ pc \in CleaningStages =>
              \/ \E k \in 0 .. prepend_count : RetainedAfter(k)
              \/ /\ OverrideInserted
                 /\ beat_times[1] = first_beat_override * den
                 /\ RetainedAfter(1)

\* the override position was inserted before retained beats, and the
\* cleaning is over
C7_Witness ==
    /\ pc = "cleaned"
    /\ OverrideInserted
    /\ Len(beat_times) > 1
    /\ beat_times[1] = first_beat_override * den
    /\ RetainedAfter(1)


\* ---------------------------------------------------------------------
\* Step 2f: the choice of the offset
\* ---------------------------------------------------------------------

\* main() has left step 2f
OffsetApplied == pc \in {"start", "built", "bridged", "done"}

\* the beats step 2f started from
BeforeOffset ==
    Shift(Rats(beat_times, den), RatSub(Rat(0, 1), total_offset))

MedianInWindow(deltas) ==
    /\ RatLeq(Rat(-1, 1), RatMedian(deltas))
    /\ RatLeq(RatMedian(deltas), Rat(6, 1))

\* C11: the calibrated offset is used exactly when 10 or more deltas were
\* collected and their median lies in [-10 ms, 60 ms]: it is then the total
\* offset; a median of 45 ms over 10 or more deltas is applied, one of
\* 65 ms is rejected; and whenever no calibrated offset is used the total
\* offset is the codec delay plus the onset-to-peak time.
C11_CalibratedIffTenInWindow ==
    OffsetApplied =>
        /\ calibrated_offset.kind = "value"
              <=> (Len(offsets) >= 10 /\ MedianInWindow(offsets))
        /\ calibrated_offset.kind = "value"
              => /\ calibrated_offset.value = RatMedian(offsets)
                 /\ total_offset = calibrated_offset.value
        /\ (Len(offsets) >= 10 /\ RatMedian(offsets) = Rat(9, 2))
              => total_offset = Rat(9, 2)
        /\ (Len(offsets) >= 10 /\ RatMedian(offsets) = Rat(13, 2))
              => calibrated_offset.kind = "none"
        /\ calibrated_offset.kind = "none"
              => total_offset = ComputedOffset(file, BeforeOffset, y)

\* a median of 45 ms over 10 deltas was applied
C11_Witness ==
    /\ OffsetApplied
    /\ Len(offsets) >= 10
    /\ RatMedian(offsets) = Rat(9, 2)
    /\ total_offset = Rat(9, 2)

\* a median of 65 ms over 10 deltas was rejected and the computed offset
\* applied
C11_RejectedWitness ==
    /\ OffsetApplied
    /\ Len(offsets) >= 10
    /\ RatMedian(offsets) = Rat(13, 2)
    /\ calibrated_offset.kind = "none"
    /\ total_offset = ComputedOffset(file, BeforeOffset, y)

\* the step from the snapped beats to the beats segment_tempo receives adds
\* total_offset' to every beat
OffsetAddedOnce ==
    /\ Len(beat_times') = Len(beat_times)
    /\ \A i \in 1 .. Len(beat_times) :
          Rat(beat_times'[i], den') = RatAdd(Rat(beat_times[i], den),
                                            total_offset')

\* total_offset' is the calibrated offset when there is one and the computed
\* offset when there is none
EitherOffset ==
    total_offset' = IF calibrated_offset'.kind = "value"
                    THEN calibrated_offset'.value
                    ELSE ComputedOffset(file, Rats(beat_times, den), y)

\* what a step of main() does to the offset and the beats
OffsetStep ==
    /\ pc = "snapped"
          => /\ pc' = "start"
             /\ segments' = <<>>
             /\ EitherOffset
             /\ OffsetAddedOnce
    /\ pc # "snapped"
          => /\ total_offset' = total_offset
             /\ calibrated_offset' = calibrated_offset
    /\ pc \in {"detected", "trimmed", "extrapolated", "cleaned"}
          => total_offset = Rat(0, 1)
    /\ OffsetApplied
          => /\ beat_times' = beat_times
             /\ den' = den

\* C12: on every path through main() one offset, the calibrated or the
\* computed one, is added once to every beat; the addition follows grid
\* snapping and precedes segment_tempo, and no other step adds an offset or
\* moves a beat afterwards.
C12_ExactlyOneOffset == [][OffsetStep]_vars

\* a track of several beats has had a non-zero computed offset added and
\* segment_tempo has not yet run
C12_Witness ==
    /\ pc = "start"
    /\ segments = <<>>
    /\ Len(beat_times) >= 4
    /\ calibrated_offset.kind = "none"
    /\ RatLess(Rat(0, 1), total_offset)
    /\ Rats(beat_times, den) = [i \in 1 .. Len(beat_times) |->
                                  RatAdd(BeforeOffset[i], total_offset)]

\* ---------------------------------------------------------------------
\* segment_tempo on fewer than two beats
\* ---------------------------------------------------------------------

\* C13: segment_tempo returns no segment for an empty beat sequence and, for
\* a single beat, one segment with start_beat_index 0, start_position that
\* beat and bpm 120; the building, bridging and consolidation steps are
\* only ever entered and left with two or more beats.
C13_DegenerateInput ==
    /\ (pc = "done" /\ Len(beat_times) = 0) => segments = <<>>
    /\ (pc = "done" /\ Len(beat_times) = 1)
          => /\ Len(segments) = 1
             /\ segments[1].start_beat_index = 0
             /\ segments[1].start_position = Rat(beat_times[1], den)
             /\ segments[1].bpm = 120 * 100
    /\ pc \in {"built", "bridged"} => Len(beat_times) >= 2
    /\ (pc = "start" /\ Len(beat_times) < 2) => ~ENABLED SegBuild

\* segment_tempo has returned the placeholder segment of a single beat
C13_Witness ==
    /\ pc = "done"
    /\ Len(beat_times) = 1
    /\ Len(segments) = 1
    /\ segments[1].bpm = 120 * 100

\* ---------------------------------------------------------------------
\* The marker blob: encoding, and decoding by _parse_beatgrid_binary
\* ---------------------------------------------------------------------

\* the largest e with 2^e <= a / d, for a > 0
RECURSIVE Exponent(_, _)
Exponent(a, d) ==
    IF a < d THEN Exponent(2 * a, d) - 1
    ELSE IF a >= 2 * d THEN Exponent(a, 2 * d) + 1
    ELSE 0

\* a 32-bit unsigned integer as 4 big-endian bytes
ToBigEndian(v) ==
    <<(v \div 16777216) % 256, (v \div 65536) % 256, (v \div 256) % 256,
      v % 256>>

\* the 24-bit significand of a / d rounded to nearest, ties to even, for the
\* exponent e
Significand(a, d, e) ==
    IF e <= 23 THEN RoundDiv(a * Pow2(23 - e), d)
    ELSE RoundDiv(a, d * Pow2(e - 23))

\* sign, biased exponent and 23 fraction bits as 4 bytes
FloatBytes(negative, biased, fraction) ==
    <<(IF negative THEN 128 ELSE 0) + biased \div 2,
      (biased % 2) * 128 + fraction \div 65536,
      (fraction \div 256) % 256,
      fraction % 256>>

\* the rational x as a big-endian IEEE 754 binary32 of the normal range
PackFloat32(x) ==
    IF x.n = 0 THEN <<0, 0, 0, 0>>
    ELSE LET e == Exponent(Abs(x.n), x.d)
             m == Significand(Abs(x.n), x.d, e)
         IN  IF m = 16777216
             THEN FloatBytes(x.n < 0, e + 128, 0)
             ELSE FloatBytes(x.n < 0, e + 127, m - 8388608)

\* 8 bytes: the position, then beats_until_next or bpm
EncodeMarker(marker) ==
    PackFloat32(marker.position)
    \o (IF "bpm" \in DOMAIN marker THEN PackFloat32(marker.bpm)
        ELSE ToBigEndian(marker.beats_until_next))

RECURSIVE EncodeMarkers(_)
EncodeMarkers(markers) ==
    IF markers = <<>> THEN <<>>
    ELSE EncodeMarker(Head(markers)) \o EncodeMarkers(Tail(markers))

\* header 01 00, the marker count, the markers
EncodeBeatgrid(markers) ==
    <<1, 0>> \o ToBigEndian(Len(markers)) \o EncodeMarkers(markers)

\* positions in seconds and tempos in BPM, some binary fractions and some not
CodecPositions ==
    {Rat(0, 1), Rat(1, 10), Rat(1, 2), Rat(7, 3), Rat(41, 4), Rat(12, 1),
     Rat(1001, 8), Rat(36001, 10), Rat(-1, 20)}

CodecBpms == {Rat(120, 1), Rat(257, 2), Rat(1741, 10), Rat(200, 3)}

CodecCounts == {1, 4, 300, 70000}

CodecNonTerminal(p, c) == [position |-> p, beats_until_next |-> c]

CodecTerminal(p, b) == [position |-> p, bpm |-> b]

\* valid marker lists: n - 1 non-terminal markers and a terminal one, at
\* increasing positions
CodecMarkerLists ==
    {<<CodecTerminal(p, b)>> : p \in CodecPositions, b \in CodecBpms}
    \cup {<<CodecNonTerminal(p, c), CodecTerminal(q, b)>> :
              p \in {Rat(0, 1), Rat(1, 10), Rat(7, 3)}, c \in CodecCounts,
              q \in {Rat(41, 4), Rat(36001, 10)}, b \in {Rat(1741, 10)}}
    \cup {<<CodecNonTerminal(Rat(1, 10), c), CodecNonTerminal(Rat(7, 3), c2),
            CodecTerminal(Rat(1001, 8), b)>> :
              c \in CodecCounts, c2 \in {1, 64}, b \in {Rat(120, 1), Rat(200, 3)}}

InitCodec ==
    /\ pc = "markers"
    /\ existing_markers \in CodecMarkerLists
    /\ beat_times = <<>>
    /\ den = 1
    /\ prev_beats = <<>>
    /\ max_drift_ms = 2
    /\ segments = <<>>
    /\ max_beats = 0
    /\ duration = 0
    /\ serato_beats = <<>>
    /\ FileIdle
    /\ PipeIdle

\* the encode path
Encode ==
    /\ pc = "markers"
    /\ marker_blob' = EncodeBeatgrid(existing_markers)
    /\ pc' = "encoded"
    /\ UNCHANGED <<beatVars, segVars, reconVars, file, grid, encoder_delay,
                   pipeVars>>

\* _parse_beatgrid_binary on the encoded blob
Decode ==
    /\ pc = "encoded"
    /\ grid' = _parse_beatgrid_binary(marker_blob)
    /\ pc' = "decoded"
    /\ UNCHANGED <<beatVars, segVars, reconVars, file, marker_blob, encoder_delay,
                   pipeVars>>

NextCodec == Encode \/ Decode

SpecCodec == InitCodec /\ [][NextCodec]_vars

----------------------------------------------------------------------------
(* _parse_beatgrid_binary on well-formed and malformed data *)

\* grids of one, two and three markers
ParseLists ==
    {<<CodecTerminal(Rat(1, 2), Rat(120, 1))>>,
     <<CodecNonTerminal(Rat(1, 10), 4), CodecTerminal(Rat(41, 4), Rat(1741, 10))>>,
     <<CodecNonTerminal(Rat(1, 10), 300), CodecNonTerminal(Rat(7, 3), 64),
       CodecTerminal(Rat(1001, 8), Rat(200, 3))>>}

\* data with its first two bytes replaced
WithHeader(data, b0, b1) == <<b0, b1>> \o SubSeq(data, 3, Len(data))

\* data with its declared marker count replaced
WithCount(data, count) ==
    SubSeq(data, 1, 2) \o ToBigEndian(count) \o SubSeq(data, 7, Len(data))

\* marker counts declared in place of the true one
DeclaredCounts == {0, 1, 2, 3, 4, 256, 65536, 16777216}

\* each grid whole, cut short at every length, followed by a footer or more,
\* under another header, and under another declared count
ParseBlobs ==
    UNION {{SubSeq(EncodeBeatgrid(m), 1, n) : n \in 0 .. Len(EncodeBeatgrid(m))}
           \cup {EncodeBeatgrid(m) \o <<0>>,
                 EncodeBeatgrid(m) \o <<0, 0, 0, 0, 0, 0, 0, 0, 0>>}
           \cup {WithHeader(EncodeBeatgrid(m), b0, b1) :
                     b0 \in {0, 1, 2}, b1 \in {0, 1}}
           \cup {WithCount(EncodeBeatgrid(m) \o <<0>>, c) : c \in DeclaredCounts} :
              m \in ParseLists}

InitParse ==
    /\ pc = "data"
    /\ marker_blob \in ParseBlobs
    /\ file = [path |-> <<>>, readable |-> FALSE, content |-> <<>>]
    /\ grid = None
    /\ encoder_delay = 0
    /\ beat_times = <<>>
    /\ den = 1
    /\ prev_beats = <<>>
    /\ max_drift_ms = 2
    /\ segments = <<>>
    /\ ReconIdle
    /\ PipeIdle

\* _parse_beatgrid_binary(data)
Parse ==
    /\ pc = "data"
    /\ grid' = _parse_beatgrid_binary(marker_blob)
    /\ pc' = "parsed"
    /\ UNCHANGED <<beatVars, segVars, reconVars, file, marker_blob, encoder_delay,
                   pipeVars>>

NextParse == Parse

SpecParse == InitParse /\ [][NextParse]_vars

\* the binary float c = n * 2^k is the binary32 nearest to the rational x:
\* it differs from x by at most half a unit of x's last place
SameAt32(x, c) ==
    IF x.n = 0 THEN c = [n |-> 0, k |-> 0]
    ELSE LET ulp == Exponent(Abs(x.n), x.d) - 23
         IN  /\ c.k # NotFinite
             /\ c.k >= ulp
             /\ ulp < 0
             /\ Abs(2 * c.n * Pow2(c.k - ulp) * x.d - 2 * x.n * Pow2(-ulp))
                   <= x.d

SameMarker(marker, decoded) ==
    /\ DOMAIN decoded = DOMAIN marker
    /\ SameAt32(marker.position, decoded.position)
    /\ IF "bpm" \in DOMAIN marker THEN SameAt32(marker.bpm, decoded.bpm)
       ELSE decoded.beats_until_next = marker.beats_until_next

\* C14: decoding the encoded blob of a valid marker list (header 01 00, a
\* 4-byte big-endian count, 8 bytes per marker) gives a list of the same
\* length whose markers carry the same fields, the same beats_until_next
\* and the positions and bpm rounded to 32-bit floats.
C14_RoundTrip ==
    /\ pc \in {"encoded", "decoded"}
          => /\ Len(marker_blob) = 6 + 8 * Len(existing_markers)
             /\ SubSeq(marker_blob, 1, 2) = <<1, 0>>
             /\ BigEndian(SubSeq(marker_blob, 3, 6)) = Len(existing_markers)
    /\ pc = "decoded"
          => /\ grid.kind = "markers"
             /\ Len(grid.markers) = Len(existing_markers)
             /\ \A i \in 1 .. Len(existing_markers) :
                   SameMarker(existing_markers[i], grid.markers[i])

\* three markers were encoded and decoded, the position 7/3 s of the second
\* to the nearest 32-bit float, 9786709 * 2^-22
C14_Witness ==
    /\ pc = "decoded"
    /\ Len(existing_markers) = 3
    /\ existing_markers[2].position = Rat(7, 3)
    /\ grid.kind = "markers"
    /\ Len(grid.markers) = 3
    /\ grid.markers[2].position = [n |-> 9786709, k |-> -22]
    /\ grid.markers[1].beats_until_next = 70000

\* ---------------------------------------------------------------------
\* _find_segment_end
\* ---------------------------------------------------------------------

\* the span [s, e] satisfies the pinned-interpolation rule within tol ticks
ValidSpan(bt, s, e, tol) ==
    WithinTolerance([start_beat_index |-> s, end_beat_index |-> e], bt, tol)

\* the segments _build_segments made with _find_segment_end
FoundSegments ==
    {i \in 1 .. Len(segments) :
        segments[i].start_beat_index < segments[i].end_beat_index}

\* C15: the index _find_segment_end returns for a start is the furthest one
\* whose span from the start satisfies the pinned-interpolation rule within
\* the tolerance: no later index gives a valid span.
C15_ReturnsFurthest ==
    pc = "built" =>
        \A i \in FoundSegments :
            /\ segments[i].end_beat_index
                 = _find_segment_end(beat_times, segments[i].start_beat_index,
                                     max_drift_ms * den)
            /\ \A j \in (segments[i].end_beat_index + 1) .. (Len(beat_times) - 1) :
                  ~ValidSpan(beat_times, segments[i].start_beat_index, j,
                             max_drift_ms * den)

\* ---------------------------------------------------------------------
\* _bridge_outliers
\* ---------------------------------------------------------------------

\* segment k of segs is an outlier
OutlierAt(segs, k) == IsOutlier(segs[k], segs)

\* the first and the last segment of the maximal outlier run that holds k
RunFirst(segs, k) ==
    CHOOSE i \in 1 .. k :
        /\ \A x \in i .. k : OutlierAt(segs, x)
        /\ i = 1 \/ ~OutlierAt(segs, i - 1)

RunLast(segs, k) ==
    CHOOSE l \in k .. Len(segs) :
        /\ \A x \in k .. l : OutlierAt(segs, x)
        /\ l = Len(segs) \/ ~OutlierAt(segs, l + 1)

\* the run segs[i .. l] has a segment before and after it, and the beats
\* outside the run drift at most twice the tolerance from the grid pinned
\* at the start of the segment before it and the start of the one after it
RunBridged(segs, bt, tol, i, l) ==
    /\ i > 1
    /\ l < Len(segs)
    /\ _serato_max_drift_good_only(bt, segs[i - 1].start_beat_index,
            segs[l + 1].start_beat_index, segs[i].start_beat_index,
            segs[l].end_beat_index)
          <= 2 * tol * (segs[l + 1].start_beat_index
                          - segs[i - 1].start_beat_index)

\* the index span segment k gives to the result, as a list of 0 or 1 spans
SpanOf(segs, bt, tol, k) ==
    IF OutlierAt(segs, k)
    THEN IF RunBridged(segs, bt, tol, RunFirst(segs, k), RunLast(segs, k))
         THEN <<>>
         ELSE IF k = RunFirst(segs, k)
         THEN <<<<segs[k].start_beat_index,
                  segs[RunLast(segs, k)].end_beat_index>>>>
         ELSE <<>>
    ELSE IF k < Len(segs) /\ OutlierAt(segs, k + 1)
            /\ RunBridged(segs, bt, tol, k + 1, RunLast(segs, k + 1))
    THEN <<<<segs[k].start_beat_index,
             segs[RunLast(segs, k + 1) + 1].start_beat_index>>>>
    ELSE <<<<segs[k].start_beat_index, segs[k].end_beat_index>>>>

RECURSIVE SpansFrom(_, _, _, _)
SpansFrom(segs, bt, tol, k) ==
    IF k > Len(segs) THEN <<>>
    ELSE SpanOf(segs, bt, tol, k) \o SpansFrom(segs, bt, tol, k + 1)

IndexSpans(segs) ==
    [k \in 1 .. Len(segs) |->
        <<segs[k].start_beat_index, segs[k].end_beat_index>>]

\* the non-outlier segments that no bridged run follows
KeptAsBuilt(segs, bt, tol) ==
    {segs[k] : k \in {x \in 1 .. Len(segs) :
        /\ ~OutlierAt(segs, x)
        /\ ~(x < Len(segs) /\ OutlierAt(segs, x + 1)
             /\ RunBridged(segs, bt, tol, x + 1, RunLast(segs, x + 1)))}}

\* what _bridge_outliers does to the built segments
BridgeStep ==
    pc = "built" =>
        /\ IndexSpans(segments')
             = SpansFrom(segments, beat_times, max_drift_ms * den, 1)
        /\ KeptAsBuilt(segments, beat_times, max_drift_ms * den)
             \subseteq Range(segments')

\* C16: _bridge_outliers drops every maximal run of outlier segments that
\* has a segment before and after it and whose bridge drifts at most twice
\* the tolerance on the beats outside the run, extending the segment before
\* it to the start of the segment after it; every other run becomes one
\* segment from the run's first start index to its last end index; the
\* non-outlier segments that no bridged run follows are emitted unchanged.
C16_BridgeRule == [][BridgeStep]_vars

\* the segments _build_segments made of the beats
Built == _build_segments(beat_times, max_drift_ms * den)

\* bridging has dropped a run of outlier segments and extended the segment
\* before it
C16_Witness ==
    /\ pc = "bridged"
    /\ \E k \in 1 .. Len(Built) :
          /\ OutlierAt(Built, k)
          /\ RunBridged(Built, beat_times, max_drift_ms * den,
                        RunFirst(Built, k), RunLast(Built, k))
    /\ Len(segments) < Len(Built)
    /\ IndexSpans(segments) = SpansFrom(Built, beat_times, max_drift_ms * den, 1)

\* bridging has made one segment of a run of two or more outlier segments
C16_CombinedWitness ==
    /\ pc = "bridged"
    /\ \E k \in 1 .. Len(Built) :
          /\ OutlierAt(Built, k)
          /\ RunFirst(Built, k) < RunLast(Built, k)
          /\ ~RunBridged(Built, beat_times, max_drift_ms * den,
                         RunFirst(Built, k), RunLast(Built, k))
    /\ IndexSpans(segments) = SpansFrom(Built, beat_times, max_drift_ms * den, 1)

\* ---------------------------------------------------------------------
\* _consolidate_constant_tempo
\* ---------------------------------------------------------------------

NormalAt(segs, k) == IsNormal(segs[k], segs)

\* (i): 85% of the beats, by beat_count, lie in normal segments
MostlyNormal(segs) ==
    100 * SumOver([k \in 1 .. Len(segs) |-> segs[k].beat_count],
                  {k \in 1 .. Len(segs) : NormalAt(segs, k)})
        >= 85 * SumOver([k \in 1 .. Len(segs) |-> segs[k].beat_count],
                        1 .. Len(segs))

\* the beats strictly between the first and the last beat of the list
Interior(segs) ==
    (segs[1].start_beat_index + 1) .. (segs[Len(segs)].end_beat_index - 1)

\* the interior beats of the normal segments, their end beats included
BeatsOfNormal(segs) ==
    {b \in Interior(segs) :
        \E k \in 1 .. Len(segs) :
            /\ NormalAt(segs, k)
            /\ segs[k].start_beat_index <= b
            /\ b <= segs[k].end_beat_index}

\* the interior beats that are no beat, end beats included, of a segment
\* that is not normal
BeatsOutsideOthers(segs) ==
    {b \in Interior(segs) :
        \A k \in 1 .. Len(segs) :
            NormalAt(segs, k) \/ b < segs[k].start_beat_index
                \/ b > segs[k].end_beat_index}

\* the beats of checked are within 40 ms of one evenly spaced grid from the
\* first to the last beat of the list
OnOneGrid(segs, bt, checked) ==
    \A b \in checked :
        ScaledDrift(bt, segs[1].start_beat_index,
                    segs[Len(segs)].end_beat_index,
                    b - segs[1].start_beat_index)
          <= 4 * den * (segs[Len(segs)].end_beat_index
                          - segs[1].start_beat_index)

\* one segment over all of segs, at 60 * beat_count / time_span BPM to two
\* decimals
IsConsolidationOf(result, segs, bt) ==
    /\ Len(result) = 1
    /\ result[1].start_beat_index = segs[1].start_beat_index
    /\ result[1].end_beat_index = segs[Len(segs)].end_beat_index
    /\ result[1].bpm =
          RoundedBpm(segs[Len(segs)].end_beat_index - segs[1].start_beat_index,
                     At(bt, segs[Len(segs)].end_beat_index)
                       - At(bt, segs[1].start_beat_index), den)

\* the list is replaced exactly when it has two or more segments, (i) holds
\* and the beats of checked are on one grid
ConsolidatedIff(checked) ==
    pc = "bridged" =>
        IF Len(segments) >= 2 /\ MostlyNormal(segments)
           /\ OnOneGrid(segments, beat_times, checked)
        THEN IsConsolidationOf(segments', segments, beat_times)
        ELSE segments' = segments

\* C17 as stated: the list is replaced by one segment exactly when 85% of
\* the beats lie in normal segments and the beats of the normal segments
\* are within 40 ms of one grid over the whole sequence.
C17_NormalSegmentBeats == [][ConsolidatedIff(BeatsOfNormal(segments))]_vars

\* C17: the list is replaced by one segment exactly when 85% of the beats
\* lie in normal segments and the beats that belong to no other segment,
\* not even as its first or last beat, are within 40 ms of one grid over
\* the whole sequence; otherwise it is returned unchanged.
C17_BeatsOutsideOtherSegments ==
    [][ConsolidatedIff(BeatsOutsideOthers(segments))]_vars

\* the segments that bridging made of the beats
Bridged == _bridge_outliers(Built, beat_times, max_drift_ms * den)

\* a list with a segment that is not normal was consolidated, although a
\* beat that a normal segment shares with it is more than 40 ms off the grid
C17_Witness ==
    /\ pc = "done"
    /\ Len(Bridged) >= 2
    /\ \E k \in 1 .. Len(Bridged) : ~NormalAt(Bridged, k)
    /\ MostlyNormal(Bridged)
    /\ ~OnOneGrid(Bridged, beat_times, BeatsOfNormal(Bridged))
    /\ IsConsolidationOf(segments, Bridged, beat_times)

\* ---------------------------------------------------------------------
\* Step 2b: weak leading beats
\* ---------------------------------------------------------------------

\* the squares of the window RMS of the beats, and those of the louder half
BeatMeanSquares(bt, d, audio) ==
    [i \in 1 .. Len(bt) |-> MeanSquare(audio, SampleIndex(bt[i], d))]

LouderHalf(bt, d, audio) ==
    SubSeq(SortRats(BeatMeanSquares(bt, d, audio)), (Len(bt) \div 2) + 1,
           Len(bt))

\* the 1-based indices of the beats whose window RMS is at least 20% of the
\* median RMS of the louder half of all beats
StrongBeats(bt, d, audio) ==
    {i \in 1 .. Len(bt) :
        MeetsThreshold(BeatMeanSquares(bt, d, audio)[i],
                       LouderHalf(bt, d, audio))}

\* the beats from the first strong one on; all of them when none is strong
FromFirstStrong(bt, d, audio) ==
    IF StrongBeats(bt, d, audio) = {} THEN bt
    ELSE SubSeq(bt, MinOf(StrongBeats(bt, d, audio)), Len(bt))

TrimsAnyLength ==
    (pc = "detected" /\ first_beat_override = NoOverride)
        => /\ beat_times' = FromFirstStrong(beat_times, den, y)
           /\ beat_times' # <<>>

TrimsFourOrMore ==
    (pc = "detected" /\ first_beat_override = NoOverride)
        => /\ beat_times' = IF Len(beat_times) >= 4
                            THEN FromFirstStrong(beat_times, den, y)
                            ELSE beat_times
           /\ beat_times' # <<>>

\* C18 as stated: the trim removes exactly the beats before the first beat
\* whose window RMS is at least 20% of the median RMS of the louder half,
\* removes nothing when no beat meets the threshold, and never leaves the
\* sequence empty.
C18_TrimsBeforeFirstStrong == [][TrimsAnyLength]_vars

\* C18: a sequence of 4 or more beats loses exactly the beats before the
\* first beat whose window RMS is at least 20% of the median RMS of the
\* louder half, and nothing when no beat meets the threshold; a sequence of
\* fewer than 4 beats is left as it is; the sequence is never left empty.
C18_TrimsFourOrMoreBeats == [][TrimsFourOrMore]_vars

\* weak leading beats were trimmed from a track of 4 or more beats
C18_Witness ==
    /\ pc = "trimmed"
    /\ Len(raw_beats) >= 4
    /\ 1 \notin StrongBeats(raw_beats, 1, y)
    /\ Len(beat_times) < Len(raw_beats)
    /\ beat_times = FromFirstStrong(raw_beats, 1, y)

\* a track of 3 beats kept its weak first beat
C18_ShortWitness ==
    /\ pc = "trimmed"
    /\ Len(raw_beats) = 3
    /\ 1 \notin StrongBeats(raw_beats, 1, y)
    /\ beat_times = raw_beats

\* ---------------------------------------------------------------------
\* Step 2c: leading-beat extrapolation
\* ---------------------------------------------------------------------

\* the intervals between the first n + 1 beats of the rationals rs
FirstIntervals(rs, n) == [i \in 1 .. n |-> RatSub(rs[i + 1], rs[i])]

\* the median of the first min(8, len - 1) intervals
MedianInterval(rs) == RatMedian(FirstIntervals(rs, Min(8, Len(rs) - 1)))

\* the square of the window RMS at the rational position r, in ticks
MeanSquareAt(audio, r) == MeanSquare(audio, SampleIndex(r.n, r.d))

\* the position c may be prepended: it is not negative, its sample index is
\* inside the signal and its window RMS is at least 25% of that at first
MayPrepend(audio, c, first) ==
    /\ c.n >= 0
    /\ SampleIndex(c.n, c.d) < audio.len
    /\ RatLeq(MeanSquareAt(audio, first),
              RatMul(Rat(16, 1), MeanSquareAt(audio, c)))

\* after is before with beats prepended one interval m apart, each of them
\* allowed, up to the first position that is not
PrependedUntilFailure(before, after, m, audio) ==
    /\ Len(after) >= Len(before)
    /\ SubSeq(after, Len(after) - Len(before) + 1, Len(after)) = before
    /\ \A j \in 1 .. (Len(after) - Len(before)) :
          /\ after[j] = RatSub(after[j + 1], m)
          /\ MayPrepend(audio, after[j], before[1])
    /\ ~MayPrepend(audio, RatSub(after[1], m), before[1])

ExtrapolationStep ==
    (pc = "trimmed" /\ Len(beat_times) >= 2 /\ StrictlyIncreasing(beat_times))
        => /\ PrependedUntilFailure(Rats(beat_times, den),
                                    Rats(beat_times', den'),
                                    MedianInterval(Rats(beat_times, den)), y)
           /\ prepend_count' = Len(beat_times') - Len(beat_times)
           /\ pc' = "extrapolated"
           \* the loop has ended, after at most first / median prepends
           /\ RatLeq(RatMul(Rat(prepend_count', 1),
                            MedianInterval(Rats(beat_times, den))),
                     Rat(beat_times[1], den))

\* C19: on two or more strictly increasing beats the extrapolation loop
\* ends after finitely many prepends; every prepended beat is one median
\* interval before the then-first beat, is not negative, has its sample
\* index inside the signal and a window RMS of at least 25% of that of the
\* beat that was first at the start; the loop stops at the first candidate
\* that fails one of these conditions.
C19_PrependsUntilFirstFailure == [][ExtrapolationStep]_vars

\* two or more beats were prepended
C19_Witness ==
    /\ pc = "extrapolated"
    /\ first_beat_override = NoOverride
    /\ prepend_count >= 2
    /\ Len(beat_times) >= prepend_count + 2

\* ---------------------------------------------------------------------
\* Steps 2b, 2c and 2d run a second time on their own output
\* ---------------------------------------------------------------------

\* steps 2b and 2c: the beats as rationals, and prepend_count
TrimAndExtrapolate(bt, d, audio) ==
    ExtrapolateLeading(TrimWeakLeading(bt, d, audio), d, audio)

AfterExtrapolation(bt, d, audio) ==
    Rats(TrimAndExtrapolate(bt, d, audio).beats, 2 * d)

\* beats with a false detection among regular ones, and the tracks of main()
CleanBeatInputs ==
    DetectedBeats
    \cup {Cumulate(f, ivs) : f \in {0, 50},
              ivs \in {<<25, 25, 50, 100, 100, 100>>,
                       <<50, 50, 50, 2, 48, 50, 50>>}}

InitClean ==
    /\ pc = "detected"
    /\ beat_times \in CleanBeatInputs
    /\ y \in Audios
    /\ den = 1
    /\ prev_beats = <<>>
    /\ max_drift_ms = 2
    /\ segments = <<>>
    /\ ReconIdle
    /\ FileIdle
    /\ first_beat_override = NoOverride
    /\ raw_beats = beat_times
    /\ pre_snap_beats = <<>>
    /\ prepend_count = 0
    /\ calibrated_offset = NoOffset
    /\ total_offset = Rat(0, 1)
    /\ offsets = <<>>
    /\ scan_index = 0

\* steps 2b, 2c and 2d from the state named from to the state named to;
\* prev_beats keeps the beats the pass started with, as rationals
CleanPass(from, to) ==
    /\ pc = from
    /\ prev_beats' = Rats(beat_times, den)
    /\ den' = CommonDen(AfterExtrapolation(beat_times, den, y))
    /\ beat_times' = FalseBeatRemoval(
                         Numerators(AfterExtrapolation(beat_times, den, y), den'))
    /\ prepend_count' = TrimAndExtrapolate(beat_times, den, y).count
    /\ pc' = to
    /\ UNCHANGED <<segVars, reconVars, fileVars, y, first_beat_override,
                   raw_beats, pre_snap_beats, calibrated_offset, total_offset,
                   offsets, scan_index>>

\* the stage as main() runs it
Clean == CleanPass("detected", "cleaned")

\* the stage run again on its own output, over the same samples
CleanAgain == CleanPass("cleaned", "cleaned twice")

NextClean == Clean \/ CleanAgain

SpecClean == InitClean /\ [][NextClean]_vars

\* C20: run a second time on its own output over the same samples, the
\* stage of steps 2b, 2c and 2d trims nothing, prepends nothing and removes
\* nothing.
C20_StageIdempotent ==
    pc = "cleaned twice"
        => /\ Rats(beat_times, den) = prev_beats
           /\ prepend_count = 0

\* a run in which the second pass removed a beat the first pass had kept
C20_SecondPassRemoved ==
    /\ pc = "cleaned twice"
    /\ prepend_count = 0
    /\ Len(beat_times) < Len(prev_beats)
    /\ Rats(beat_times, den)[1] = prev_beats[1]

\* a run in which the second pass trimmed leading beats
C20_SecondPassTrimmed ==
    /\ pc = "cleaned twice"
    /\ prepend_count = 0
    /\ RatLess(prev_beats[1], Rats(beat_times, den)[1])


(* step 2f: the two matching methods *)

\* the deltas of method 1 over the first 100 beats of the saved copy
DirectDeltas ==
    DirectOffsets(serato_beats, pre_snap_beats, Min(100, Len(pre_snap_beats)))

\* the existing grid is one marker carrying a positive bpm
SinglePositiveBpm ==
    /\ Len(existing_markers) = 1
    /\ "bpm" \in DOMAIN existing_markers[1]
    /\ existing_markers[1].bpm.n > 0

\* the deltas of method 2 over the same beats
GridPointDeltas ==
    IF SinglePositiveBpm
    THEN GridOffsets(existing_markers[1].position,
                     BeatInterval(existing_markers[1].bpm), pre_snap_beats,
                     Min(100, Len(pre_snap_beats)))
    ELSE <<>>

\* every delta is under a quarter of the marker's beat interval
UnderQuarterInterval(deltas) ==
    \A i \in 1 .. Len(deltas) :
        RatLess(RatMul(Rat(4, 1), RatAbs(deltas[i])),
                BeatInterval(existing_markers[1].bpm))

\* matching was entered: markers were read and 4 or more beats rebuilt
MatchingRan ==
    /\ OffsetApplied
    /\ existing_markers # <<>>
    /\ Len(serato_beats) >= 4

FallbackTaken ==
    /\ Len(DirectDeltas) < 10
    /\ SinglePositiveBpm
    /\ Len(GridPointDeltas) >= 10

\* C21: the deltas the median is taken of are those of grid-point matching
\* exactly when direct matching gave fewer than 10, the grid is one marker
\* with a positive bpm and grid-point matching gave 10 or more, each under a
\* quarter of the beat interval; in every other case, and whenever direct
\* matching gave 10 or more, they are those of direct matching.
C21_GridPointOnlyAsFallback ==
    MatchingRan =>
        /\ FallbackTaken
              => /\ offsets = GridPointDeltas
                 /\ offsets # DirectDeltas
                 /\ UnderQuarterInterval(offsets)
        /\ ~FallbackTaken => offsets = DirectDeltas
        /\ Len(DirectDeltas) >= 10 => offsets = DirectDeltas

\* direct matching found 5 pairs, grid-point matching 13, and the 13 were
\* used
C21_Witness ==
    /\ MatchingRan
    /\ FallbackTaken
    /\ Len(DirectDeltas) = 5
    /\ Len(offsets) = 13
    /\ offsets = GridPointDeltas

\* direct matching found 10 or more pairs and was used although grid-point
\* matching found more
C21_DirectWitness ==
    /\ MatchingRan
    /\ Len(DirectDeltas) >= 10
    /\ Len(GridPointDeltas) > Len(DirectDeltas)
    /\ offsets = DirectDeltas

\* direct matching found fewer than 10 pairs against a grid of two markers
C21_TwoMarkerWitness ==
    /\ MatchingRan
    /\ Len(DirectDeltas) < 10
    /\ Len(existing_markers) = 2
    /\ offsets = DirectDeltas


(* step 2f: the computed offset *)

\* step 2f has just ended and used no calibrated offset
ComputedPath == pc = "start" /\ calibrated_offset.kind = "none"

\* (EncoderDelay + 529) / sample rate for an MP3 path, zero for any other
CodecDelayOfFile ==
    IF IsMp3Path(file.path)
    THEN Rat(100 * (get_mp3_encoder_delay(file) + MPEG1_DECODER_DELAY), sr)
    ELSE Rat(0, 1)

\* m clamped to [1 ms, 20 ms]
Clamped(m) ==
    IF RatLess(m, Rat(1, 10)) THEN Rat(1, 10)
    ELSE IF RatLess(Rat(2, 1), m) THEN Rat(2, 1)
    ELSE m

\* the peak offsets of the beats that have a window of 10 or more samples
MeasuredPeaks == PeakOffsets(BeforeOffset, y)

\* the lead when every sequence with a measurable beat is measured
LeadOfAnyBeats ==
    IF MeasuredPeaks = <<>> THEN Rat(1, 2)
    ELSE Clamped(RatMedian(MeasuredPeaks))

\* the lead when only sequences of 4 or more beats are measured
LeadOfFourOrMore ==
    IF Len(beat_times) < 4 \/ MeasuredPeaks = <<>> THEN Rat(1, 2)
    ELSE Clamped(RatMedian(MeasuredPeaks))

\* C22 as stated: on the computed path the offset is the codec delay,
\* (EncoderDelay + 529) / sample rate for MP3 and 0 otherwise, plus the
\* median peak offset clamped to [1 ms, 20 ms], with the 5 ms default only
\* when no beat can be measured; it is at least 1 ms.
C22_DefaultOnlyWithoutBeats ==
    ComputedPath =>
        /\ total_offset = RatAdd(CodecDelayOfFile, LeadOfAnyBeats)
        /\ RatLeq(Rat(1, 10), total_offset)

\* C22: on the computed path the offset is the codec delay,
\* (EncoderDelay + 529) / sample rate for MP3 and 0 otherwise, plus the
\* onset-to-peak lead; the lead is the median peak offset clamped to
\* [1 ms, 20 ms] when there are 4 or more beats and one of them can be
\* measured, and 5 ms otherwise; the offset is at least 1 ms.
C22_DefaultUnderFourBeats ==
    ComputedPath =>
        /\ total_offset = RatAdd(CodecDelayOfFile, LeadOfFourOrMore)
        /\ RatLeq(Rat(1, 10), total_offset)
        /\ IsMp3Path(file.path) => encoder_delay > 0
        /\ ~IsMp3Path(file.path) => total_offset = LeadOfFourOrMore

\* an MP3 file with an encoder delay of 1234 samples and 4 or more beats:
\* the offset is 1763 samples plus a measured lead
C22_Witness ==
    /\ ComputedPath
    /\ IsMp3Path(file.path)
    /\ encoder_delay = 1234
    /\ Len(beat_times) >= 4
    /\ MeasuredPeaks # <<>>
    /\ total_offset = RatAdd(Rat(100 * 1763, sr), Clamped(RatMedian(MeasuredPeaks)))

\* 3 beats, each measurable, got the 5 ms default and not their clamped
\* median
C22_ShortWitness ==
    /\ ComputedPath
    /\ Len(beat_times) = 3
    /\ Len(MeasuredPeaks) = 3
    /\ Clamped(RatMedian(MeasuredPeaks)) # Rat(1, 2)
    /\ total_offset = RatAdd(CodecDelayOfFile, Rat(1, 2))

\* a lead strictly between the two clamps was measured
C22_UnclampedWitness ==
    /\ ComputedPath
    /\ Len(beat_times) >= 4
    /\ MeasuredPeaks # <<>>
    /\ RatLess(Rat(1, 10), RatMedian(MeasuredPeaks))
    /\ RatLess(RatMedian(MeasuredPeaks), Rat(2, 1))


(* step 2e: when the sequence is replaced *)

\* the beats saved before step 2e, as integers over their common denominator
PreSnapDen == CommonDen(pre_snap_beats)

PreSnap == Numerators(pre_snap_beats, PreSnapDen)

\* 80 % or more of the deduplicated beats are within 30 ms of the line
InlierShare(clean_beats, clean_numbers, d, fit) ==
    5 * Len(GoodIdx(GoodMask(clean_beats, clean_numbers, d, fit.slope,
                             fit.intercept)))
        >= 4 * Len(clean_beats)

\* the final fit has a positive slope and 80 % inliers
FitAccepted(bt, d, numbers, fit) ==
    /\ fit.slope.n > 0
    /\ InlierShare(Pick(bt, UniqueIdx(numbers)), Pick(numbers, UniqueIdx(numbers)),
                   d, fit)

\* the fit ended with fewer than 4 inliers or a slope that is not positive
FitAbandoned(fit) ==
    Len(GoodIdx(fit.good_mask)) < 4 \/ fit.slope.n <= 0

NumbersFor(bt, est_interval) ==
    [i \in 1 .. Len(bt) |-> BeatNumber(bt, est_interval, i - 1)]

\* 8 or more beats at a near-constant tempo
SnapAttempted(bt) == Len(bt) >= 8 /\ IsConstantTempo(Diffs(bt))

\* every condition under which step 2e may replace the sequence
MaySnap(bt, d) ==
    /\ SnapAttempted(bt)
    /\ FitAccepted(bt, d, NumbersFor(bt, EstimateInterval(bt, d)),
                   FitGrid(bt, d, EstimateInterval(bt, d)))

SnapLeftUnchanged == Rats(beat_times, den) = pre_snap_beats

\* C23: step 2e leaves the sequence as it was unless it has 8 or more
\* beats, the interquartile spread of its intervals is under 3 % of the
\* median interval, 80 % or more of the deduplicated beats are within 30 ms
\* of the final fit and the final slope is positive; a fit that ended with
\* fewer than 4 inliers or a slope that is not positive never replaces it.
C23_UnchangedUnlessAccepted ==
    pc = "snapped" =>
        /\ ~MaySnap(PreSnap, PreSnapDen) => SnapLeftUnchanged
        /\ (/\ SnapAttempted(PreSnap)
            /\ FitAbandoned(FitGrid(PreSnap, PreSnapDen,
                                    EstimateInterval(PreSnap, PreSnapDen))))
              => SnapLeftUnchanged

\* 8 or more beats at a near-constant tempo, under 80 % of them inliers:
\* the sequence is as it was
C23_Witness ==
    /\ pc = "snapped"
    /\ SnapAttempted(PreSnap)
    /\ ~MaySnap(PreSnap, PreSnapDen)
    /\ SnapLeftUnchanged

\* every condition holds and the sequence was replaced
C23_SnappedWitness ==
    /\ pc = "snapped"
    /\ MaySnap(PreSnap, PreSnapDen)
    /\ ~SnapLeftUnchanged

\* the fit ended with fewer than 4 inliers
C23_AbandonedWitness ==
    /\ pc = "snapped"
    /\ SnapAttempted(PreSnap)
    /\ FitAbandoned(FitGrid(PreSnap, PreSnapDen,
                            EstimateInterval(PreSnap, PreSnapDen)))


(* _parse_beatgrid_binary *)

\* the 4-byte word at pos, or fewer bytes at the end of the data
WordAt(pos) == Slice(marker_blob, pos, pos + 4)

\* the data starts with 01 00, declares c > 0 markers and holds 8 c bytes
\* after the 6-byte prefix
WellFormed ==
    /\ Len(marker_blob) >= 6
    /\ marker_blob[1] = 1
    /\ marker_blob[2] = 0
    /\ BigEndian(WordAt(2)) > 0
    /\ (Len(marker_blob) - 6) \div 8 >= BigEndian(WordAt(2))

\* marker i (from 1) of c: a non-terminal shape unless it is the last
ShapeOf(i, c) ==
    IF i < c
    THEN [position |-> Float32(WordAt(8 * i - 2)),
          beats_until_next |-> BigEndian(WordAt(8 * i + 2))]
    ELSE [position |-> Float32(WordAt(8 * i - 2)),
          bpm |-> Float32(WordAt(8 * i + 2))]

\* C24: _parse_beatgrid_binary returns a marker list exactly when the data
\* starts with 01 00, the declared big-endian count c is positive and at
\* least 8 c bytes follow the 6-byte prefix; the list then has c markers,
\* the first c - 1 with a position and an unsigned beats_until_next, the
\* last with a position and a float bpm; otherwise it returns None.
C24_ParsesIffWellFormed ==
    pc = "parsed" =>
        /\ grid.kind = "markers" <=> WellFormed
        /\ ~WellFormed => grid = None
        /\ WellFormed
              => /\ Len(grid.markers) = BigEndian(WordAt(2))
                 /\ \A i \in 1 .. Len(grid.markers) :
                       grid.markers[i] = ShapeOf(i, Len(grid.markers))

\* three markers were declared and returned, two with a beat count and the
\* last with a bpm, from data that goes on after them
C24_Witness ==
    /\ pc = "parsed"
    /\ WellFormed
    /\ Len(grid.markers) = 3
    /\ Len(marker_blob) > 6 + 8 * 3
    /\ grid.markers[2].beats_until_next = 64
    /\ "bpm" \in DOMAIN grid.markers[3]

\* one marker fewer was declared than encoded: a beat count of 4 was read
\* as the bpm of the last marker
C24_WordAsFloatWitness ==
    /\ pc = "parsed"
    /\ WellFormed
    /\ Len(grid.markers) = 1
    /\ WordAt(10) = <<0, 0, 0, 4>>
    /\ grid.markers[1].bpm = Float32(<<0, 0, 0, 4>>)

\* the header and the count are good but the data ends inside a marker
C24_ShortWitness ==
    /\ pc = "parsed"
    /\ Len(marker_blob) >= 6 + 8
    /\ marker_blob[1] = 1
    /\ marker_blob[2] = 0
    /\ BigEndian(WordAt(2)) = 2
    /\ Len(marker_blob) < 6 + 16
    /\ grid = None


(* _parse_geob_serato_beatgrid: descriptions in a 2-byte character set *)

\* the file is an MP3 whose tag holds one GEOB frame from TwoByteGeobs
HoldsTwoByteGeob ==
    /\ file.readable
    /\ IsMp3Path(file.path)
    /\ \E v \in TagVersions, data \in TwoByteGeobs :
          file.content = TagHeader(v, Len(data) + 10)
                         \o Frame(GEOB, Len(data), data, v)

\* C25: a GEOB frame whose encoding byte is 1 or 2, with a double-null
\* terminated filename and the description 'Serato BeatGrid' in that
\* character set, double-null terminated, followed by a valid grid, is
\* recognised and the grid's two markers are returned.
C25_TwoByteDescriptionRecognised ==
    (pc = "read" /\ HoldsTwoByteGeob)
        => /\ grid.kind = "markers"
           /\ Len(grid.markers) = 2

\* such a frame was read and nothing was returned
C25_NotRecognised ==
    /\ pc = "read"
    /\ HoldsTwoByteGeob
    /\ grid = None


(* the copy saved for calibration *)

\* pre_snap_beats[:min(100, len(pre_snap_beats))]
First100(beats) == SubSeq(beats, 1, Min(100, Len(beats)))

\* what a step of main() does to the saved copy and the deltas
CalibrationStep ==
    /\ pc = "extrapolated"
          => pre_snap_beats' = Rats(beat_times', den')
    /\ pc = "cleaned"
          => /\ pre_snap_beats = Rats(beat_times, den)
             /\ pre_snap_beats' = pre_snap_beats
             /\ offsets' = <<>>
    /\ pc = "snapped"
          => /\ pre_snap_beats' = pre_snap_beats
             /\ offsets' = Collected(existing_markers', serato_beats',
                                     First100(pre_snap_beats))
    /\ pc \notin {"extrapolated", "cleaned", "snapped"}
          => /\ pre_snap_beats' = pre_snap_beats
             /\ offsets' = offsets

\* C26: the copy saved for calibration is the cleaned sequence; grid
\* snapping and the offset step leave it as it is; and the deltas are those
\* of its first 100 beats, whatever grid snapping made of beat_times.
C26_MatchesSavedCopy == [][CalibrationStep]_vars

\* 105 beats were saved and only the first 100 were matched, all of them
C26_Witness ==
    /\ pc = "start"
    /\ Len(pre_snap_beats) > 100
    /\ existing_markers # <<>>
    /\ Len(offsets) > 0
    /\ offsets = Collected(existing_markers, serato_beats,
                           First100(pre_snap_beats))
    /\ offsets # DirectOffsets(serato_beats, pre_snap_beats,
                               Len(pre_snap_beats))

\* grid snapping moved the beats, and the deltas are not those of the
\* snapped beats
C26_SnappedWitness ==
    /\ pc = "start"
    /\ Len(offsets) >= 10
    /\ Shift(pre_snap_beats, total_offset) # Rats(beat_times, den)
    /\ offsets # Collected(existing_markers, serato_beats, BeforeOffset)


(* reconstruct_serato_beats: the beat-count cap *)

\* C27: reconstruct_serato_beats never returns more than max_beats beats,
\* whatever the markers and the duration.
C27_AtMostMaxBeats ==
    pc = "done" => Len(serato_beats) <= max_beats

\* three markers gave three beats under a cap of 2
C27_OverCap ==
    /\ pc = "done"
    /\ Len(existing_markers) = 3
    /\ max_beats = 2
    /\ Len(serato_beats) = 3


(* step 2d: what the scan keeps and why it ends *)

\* the iterations left at most: the beats from the cursor on
ScanDistance(bt, i) == Len(bt) - 1 - i

\* what one step of the scan does
ScanFrame ==
    /\ (pc = "scan" /\ pc' = "scan")
          => /\ \/ /\ Len(beat_times') = Len(beat_times) - 1
                   /\ scan_index' = scan_index
                \/ /\ beat_times' = beat_times
                   /\ scan_index' = scan_index + 1
             /\ ScanDistance(beat_times', scan_index')
                    = ScanDistance(beat_times, scan_index) - 1
             /\ ScanDistance(beat_times', scan_index') >= 0
             /\ beat_times'[1] = beat_times[1]
             /\ beat_times'[Len(beat_times')] = beat_times[Len(beat_times)]
    /\ pc' = "scan"
          => /\ Len(prev_beats') >= 4
             /\ Len(beat_times') >= 2
             /\ beat_times'[1] = prev_beats'[1]
             /\ beat_times'[Len(beat_times')] = prev_beats'[Len(prev_beats')]
    /\ (pc = "scan" /\ pc' = "cleaned")
          => /\ ScanDistance(beat_times, scan_index) = 0
             /\ beat_times' = FalseBeatRemoval(prev_beats)
             /\ Len(beat_times') >= 2
             /\ beat_times'[1] = prev_beats[1]
             /\ beat_times'[Len(beat_times')] = prev_beats[Len(prev_beats)]

\* C28: false-detection removal never removes the first or the last beat:
\* on 4 or more beats the result has the first and the last position of the
\* input and 2 or more beats; every iteration of the scan either removes a
\* beat or advances the cursor, so the number of beats from the cursor on
\* falls by one each time and the loop ends when it reaches zero.
C28_KeepsEndsAndTerminates == [][ScanFrame]_vars

\* the scan ended on 5 beats of 7: the second beat and another were
\* removed, the first and the last kept
C28_Witness ==
    /\ pc = "cleaned"
    /\ Len(prev_beats) = 7
    /\ Len(beat_times) = 5
    /\ beat_times[2] # prev_beats[2]
    /\ beat_times[1] = prev_beats[1]
    /\ beat_times[5] = prev_beats[7]

\* the scan removed the second-to-last beat
C28_NextToLastWitness ==
    /\ pc = "cleaned"
    /\ Len(prev_beats) >= 4
    /\ Len(beat_times) < Len(prev_beats)
    /\ beat_times[Len(beat_times)] = prev_beats[Len(prev_beats)]
    /\ beat_times[Len(beat_times) - 1] < prev_beats[Len(prev_beats) - 1]


(* step 2e: cumulative beat numbering *)

\* numbers start at 0 and grow by 1 or more from beat to beat; np.unique
\* keeps every index, and the deduplicated beats are the beats
StrictNumbers(bt, numbers) ==
    /\ numbers[1] = 0
    /\ \A i \in 2 .. Len(numbers) : numbers[i] >= numbers[i - 1] + 1
    /\ UniqueIdx(numbers) = [i \in 1 .. Len(bt) |-> i]
    /\ Pick(bt, UniqueIdx(numbers)) = bt
    /\ Pick(numbers, UniqueIdx(numbers)) = numbers

\* C29: whenever step 2e numbers the beats, the cumulative beat numbers
\* are strictly increasing, by 1 or more from each beat to the next, so no
\* two beats have the same number: the duplicate removal removes nothing
\* and the deduplicated sequence is the input sequence.
C29_NumbersStrictlyIncrease ==
    (pc = "snapped" /\ SnapAttempted(PreSnap))
        => StrictNumbers(PreSnap,
                         NumbersFor(PreSnap, EstimateInterval(PreSnap, PreSnapDen)))

\* a beat 150 ms after the one before it, under a third of the estimated
\* interval, still got the next number
C29_Witness ==
    /\ pc = "snapped"
    /\ SnapAttempted(PreSnap)
    /\ \E i \in 2 .. Len(PreSnap) :
          /\ 3 * (PreSnap[i] - PreSnap[i - 1]) * EstimateInterval(PreSnap, PreSnapDen).d
                 < EstimateInterval(PreSnap, PreSnapDen).n
          /\ BeatNumber(PreSnap, EstimateInterval(PreSnap, PreSnapDen), i - 1)
                 = BeatNumber(PreSnap, EstimateInterval(PreSnap, PreSnapDen), i - 2) + 1

\* a gap of two intervals took two numbers
C29_GapWitness ==
    /\ pc = "snapped"
    /\ SnapAttempted(PreSnap)
    /\ \E i \in 2 .. Len(PreSnap) :
          BeatNumber(PreSnap, EstimateInterval(PreSnap, PreSnapDen), i - 1)
              = BeatNumber(PreSnap, EstimateInterval(PreSnap, PreSnapDen), i - 2) + 2


(* start_position of the segments *)

\* position, a rational number of ticks, is a whole number of microseconds
\* and lies within half a microsecond of the beat at p / den ticks
IsRound6(position, p) ==
    /\ 10000 % position.d = 0
    /\ 2 * 10000 * Abs(position.n * den - p * position.d) <= den * position.d

\* every segment's start_position is its start beat rounded to 6 decimals
StartsRounded ==
    \A k \in 1 .. Len(segments) :
        IsRound6(segments[k].start_position,
                 At(beat_times, segments[k].start_beat_index))

\* C30 as stated: every segment of the list segment_tempo returns has as
\* start_position the input beat at its start_beat_index rounded to 6
\* decimals.
C30_StartPositionRounded == pc = "done" => StartsRounded

\* C30: for an input of two or more beats, every segment has as
\* start_position the input beat at its start_beat_index rounded to 6
\* decimals, after the initial building, after bridging and collapsing and
\* in the returned list; the single segment returned for a single beat has
\* that beat, not rounded, as start_position.
C30_StartPositionIsStartBeat ==
    /\ (pc \in {"built", "bridged", "done"} /\ Len(beat_times) >= 2)
          => StartsRounded
    /\ (pc = "done" /\ Len(beat_times) = 1)
          => segments[1].start_position = Rat(beat_times[1], den)

\* a returned list of several segments, one of them extended by bridging
\* or made of a collapsed outlier run, over beats that are no whole number
\* of microseconds: the second segment's start_position differs from its
\* start beat
C30_Witness ==
    /\ pc = "done"
    /\ den = FineDen
    /\ Len(segments) >= 2
    /\ segments[2].start_beat_index > 0
    /\ \E k \in 1 .. Len(segments) :
          ~(segments[k] \in Range(_build_segments(beat_times, max_drift_ms * den)))
    /\ segments[2].start_position
          # Rat(At(beat_times, segments[2].start_beat_index), den)

\* the single segment of a consolidated track
C30_ConsolidatedWitness ==
    /\ pc = "done"
    /\ den = FineDen
    /\ Len(segments) = 1
    /\ Len(_bridge_outliers(_build_segments(beat_times, max_drift_ms * den),
                            beat_times, max_drift_ms * den)) >= 2
    /\ segments[1].start_position # Rat(beat_times[1], den)

\* a single beat that is no whole number of microseconds
C30_SingleBeatWitness ==
    /\ pc = "done"
    /\ Len(beat_times) = 1
    /\ den = FineDen
    /\ ~IsRound6(segments[1].start_position, beat_times[1])

=============================================================================
